---- MODULE Spec2Model ----
(***************************************************************************)
(* ForgeTrade multi-stream orchestration engine.                           *)
(*                                                                         *)
(* State machine of app/engine.py (TradingEngine), app/engine_manager.py   *)
(* (EngineManager), app/risk/drawdown.py (DrawdownTracker) and the control *)
(* and settings handlers of app/api/routers.py.                            *)
(*                                                                         *)
(* Scheduling: one asyncio event loop.  A coroutine runs without being     *)
(* interleaved until it awaits a network call or asyncio.sleep.  The       *)
(* variable "active" holds the task that is executing synchronous code     *)
(* (0 when the event loop is idle and may pick any ready callback);        *)
(* handlers and wake-ups are enabled only when active = 0.                 *)
(*                                                                         *)
(* Units: equity in account currency units; risk_per_trade_pct in          *)
(* hundredths of a percent; max_drawdown_pct in tenths of a percent;       *)
(* rr_ratio in tenths (0 = None); stop distances in pips.                  *)
(***************************************************************************)
EXTENDS Integers, Sequences, FiniteSets, TLC

\* ---------------------------------------------------------------- bounds
MaxCycles == 2          \* cycles one run loop may start within the model horizon
MaxResumes == 1         \* resume requests that launch a new run() task
MaxReloads == 1         \* settings requests handled within the model horizon
MaxStopCalls == 2       \* stop_all calls told apart in the manager's call record
MaxPositions == 2       \* open positions the broker account may hold on the instrument
MaxCalls == 1           \* broker calls followed through their HTTP attempts

\* ------------------------------------------------------- program constants
ConfigMaxDrawdownPct == 100    \* Config.max_drawdown_pct default 10.0 (tenths of a percent)
DdMin == 10                    \* post_settings: 1.0 <= max_drawdown_pct
DdMax == 250                   \* post_settings: max_drawdown_pct <= 25.0
PosMin == 1                    \* post_settings: 1 <= max_concurrent_positions
PosMax == 10                   \* post_settings: max_concurrent_positions <= 10
PollMin == 10                  \* post_settings: 10 <= poll_interval_seconds
PollMax == 3600                \* post_settings: poll_interval_seconds <= 3600
RiskMin == 10                  \* post_stream_settings: 0.1 <= risk_per_trade_pct
RiskMax == 500                 \* post_stream_settings: risk_per_trade_pct <= 5.0
SessStartMax == 23             \* post_stream_settings: session_start_utc <= 23
SessEndMin == 1                \* post_stream_settings: 1 <= session_end_utc
SessEndMax == 24               \* post_stream_settings: session_end_utc <= 24
MinSlAtrMult == 5               \* min_sl_atr_mult default 0.5 (tenths)
MaxSlAtrMult == 20              \* max_sl_atr_mult default 2.0 (tenths)
MinTpAtrMult == 10              \* min_tp_atr_mult default 1.0 (tenths)
MaxRetries == 3                \* _MAX_RETRIES
RetryBaseDelay == 2            \* _RETRY_BASE_DELAY, seconds

\* ------------------------------------------------------------ input sets
EquitySet == {0, 90, 100}                  \* equities the broker may report
Failed == [ok |-> FALSE, equity |-> 0]     \* a broker call that raises
AccountOutcomes == {[ok |-> TRUE, equity |-> e] : e \in EquitySet} \cup {Failed}
HourSet == {6, 7, 20, 21}                  \* utc_now.hour of a cycle
SlPipsSet == {30}                          \* |entry - sl| / pip_value of a strategy result
Directions == {"buy", "sell"}
Signals == [direction : Directions, sl_pips : SlPipsSet]
NoSignal == [direction |-> "none", sl_pips |-> 0]
UnknownStream == "nope"                    \* a stream name no engine has

\* ---------------------------------------------------------- StreamConfig
StreamConfig(name, rl) ==
    [name |-> name, instrument |-> "EUR_USD", strategy |-> "sr_rejection",
     poll_interval_seconds |-> 2, risk_per_trade_pct |-> 100,
     max_concurrent_positions |-> 1, session_start_utc |-> 7,
     session_end_utc |-> 21, enabled |-> TRUE, rr_ratio |-> 0, rl_filter |-> rl]

OneStream == << StreamConfig("s1", "active") >>
TwoStreams == << StreamConfig("s1", "disabled"), StreamConfig("s2", "disabled") >>

\* ------------------------------------------------------- DrawdownTracker
NoTracker == [present |-> FALSE, peak_equity |-> 0, current_equity |-> 0,
              max_drawdown_pct |-> 0]

\* DrawdownTracker.__init__: rejects a non-positive initial equity.
DrawdownTracker_init(initial_equity, max_dd) ==
    IF initial_equity <= 0
    THEN [ok |-> FALSE, tracker |-> NoTracker]
    ELSE [ok |-> TRUE,
          tracker |-> [present |-> TRUE, peak_equity |-> initial_equity,
                       current_equity |-> initial_equity,
                       max_drawdown_pct |-> max_dd]]

\* variant: the peak follows the latest equity
update_peak_follows(d, equity) ==
    [d EXCEPT !.current_equity = equity, !.peak_equity = equity]

\* DrawdownTracker.update
update(d, equity) ==
    [d EXCEPT !.current_equity = equity,
              !.peak_equity = IF equity > @ THEN equity ELSE @]

\* DrawdownTracker.drawdown_pct as the fraction num / den (den > 0) of a
\* percent: 0 when the peak is 0, else (peak - current) / peak * 100
drawdown_pct(d) ==
    IF d.peak_equity = 0
    THEN [num |-> 0, den |-> 1]
    ELSE [num |-> (d.peak_equity - d.current_equity) * 100, den |-> d.peak_equity]

\* variant: a drawdown equal to the threshold does not trip the breaker
circuit_breaker_active_above(d) ==
    IF d.peak_equity = 0
    THEN 0 > d.max_drawdown_pct
    ELSE (d.peak_equity - d.current_equity) * 1000 > d.max_drawdown_pct * d.peak_equity

\* DrawdownTracker.circuit_breaker_active: drawdown_pct >= max_drawdown_pct,
\* with drawdown_pct = (peak - current) / peak * 100 and 0 when peak = 0
\* (threshold in tenths of a percent, hence the factor 1000).
circuit_breaker_active(d) ==
    IF d.peak_equity = 0
    THEN 0 >= d.max_drawdown_pct
    ELSE (d.peak_equity - d.current_equity) * 1000 >= d.max_drawdown_pct * d.peak_equity

\* variant: the breaker trips only strictly above the threshold
breaker_gate_strict(d) ==
    /\ d.present
    /\ (d.peak_equity - d.current_equity) * 1000 > d.max_drawdown_pct * d.peak_equity

\* the engine's test "self._drawdown and self._drawdown.circuit_breaker_active"
breaker_gate(d) == d.present /\ circuit_breaker_active(d)

\* variant: the end hour counted as inside the session
is_in_session_closed(utc_hour, session_start, session_end) ==
    session_start <= utc_hour /\ utc_hour <= session_end

\* is_in_session: inclusive start, exclusive end
is_in_session(utc_hour, session_start, session_end) ==
    session_start <= utc_hour /\ utc_hour < session_end

\* ------------------------------------------------------------ OandaClient
\* _RETRYABLE_STATUS_CODES
RetryableStatusCodes == {502, 503, 504, 429}

\* what one HTTP attempt can end with: a response with a status code, or
\* an httpx.TransportError (connection reset, timeout); "processed" tells
\* whether the server carried the request out, which a transport failure
\* leaves unknown to the client
StatusCodes == {200, 400, 401, 404, 429, 500, 502, 503, 504}
NoResponse == [kind |-> "none", code |-> 0, processed |-> FALSE]
Responses ==
    {[kind |-> "status", code |-> c, processed |-> (c = 200)] : c \in StatusCodes}
    \cup {[kind |-> "transport", code |-> 0, processed |-> b] : b \in BOOLEAN}

\* self._headers: the headers of every request
Headers == {"Authorization", "Content-Type"}

\* the client's methods as the request each hands to _request_with_retry:
\* HTTP method, path below /v3/accounts/{id} and JSON body (field, value)
BrokerCalls ==
    {[name |-> "fetch_candles", method |-> "get", path |-> "candles",
      headers |-> Headers, body |-> {}],
     [name |-> "get_account_summary", method |-> "get", path |-> "summary",
      headers |-> Headers, body |-> {}],
     [name |-> "place_order", method |-> "post", path |-> "orders",
      headers |-> Headers,
      body |-> {<< "type", "MARKET" >>, << "instrument", "EUR_USD" >>,
                << "units", "333" >>, << "stopLossOnFill", "1.09700" >>,
                << "takeProfitOnFill", "1.10600" >>}],
     [name |-> "close_position", method |-> "put", path |-> "positions/close",
      headers |-> Headers,
      body |-> {<< "longUnits", "ALL" >>, << "shortUnits", "ALL" >>}],
     [name |-> "modify_trade_sl", method |-> "put", path |-> "trades/orders",
      headers |-> Headers, body |-> {<< "stopLoss", "1.09800" >>}]}

NoCall == [name |-> "", method |-> "", path |-> "", headers |-> {}, body |-> {}]

\* no _request_with_retry call in progress.  log: the outcome of each
\* attempt; requests: what each attempt sent; delays: the backoff sleeps
\* begun; executed: how often the server carried the request out
HttpIdle ==
    [pc |-> "idle", call |-> NoCall, attempt |-> 0, log |-> << >>,
     requests |-> << >>, delays |-> << >>, last_exc |-> NoResponse,
     raised |-> NoResponse, executed |-> 0, calls |-> 0]

\* ------------------------------------------------------------------ state
VARIABLES
    streams,    \* EngineManager._streams: the enabled StreamConfigs, in order
    engines,    \* EngineManager._engines: stream name -> TradingEngine fields
    tasks,      \* asyncio tasks executing TradingEngine.run, in creation order
    mgr,        \* the EngineManager.run_all coroutine
    broker,     \* the account at the broker, seen through the shared client
    live,       \* routers._live_settings
    resumes,    \* resume requests that launched a task so far
    reloads,    \* settings requests handled so far
    active,     \* task executing synchronous code, 0 when the event loop is idle
    http,       \* the OandaClient._request_with_retry call in progress
    calc        \* a call of a function of app/risk followed on its own

vars == << streams, engines, tasks, mgr, broker, live, resumes, reloads, active, http, calc >>

Names == {streams[i].name : i \in 1..Len(streams)}
TaskIds == 1..Len(tasks)

\* TradingEngine.__init__: not running, no tracker, cycle count 0; the RL
\* mode is fixed at construction from stream_config.rl_filter.
TradingEngine(sc, broker_ref, strategy) ==
    [running |-> FALSE, cycle_count |-> 0, stream_config |-> sc,
     drawdown |-> NoTracker, rl_mode |-> sc.rl_filter,
     broker |-> broker_ref, strategy |-> strategy]

\* the keys of STRATEGY_REGISTRY
STRATEGY_REGISTRY == {"sr_rejection", "trend_scalp"}

\* the OandaClient object main() creates and hands to the manager
SharedBroker == [cls |-> "OandaClient", obj |-> "main"]

\* variant: one strategy object per class, handed to every caller
get_strategy_shared(name, obj) ==
    IF name \notin STRATEGY_REGISTRY
    THEN [ok |-> FALSE, cls |-> "", obj |-> 0]
    ELSE [ok |-> TRUE, cls |-> name, obj |-> 0]

\* get_strategy(name): KeyError for an unregistered name, else a new
\* object of the registered class; obj tells the objects apart (the
\* call that created it)
get_strategy(name, obj) ==
    IF name \notin STRATEGY_REGISTRY
    THEN [ok |-> FALSE, cls |-> "", obj |-> 0]
    ELSE [ok |-> TRUE, cls |-> name, obj |-> obj]

\* build_engines: the streams of _streams the loop gets through, which is
\* all of them unless get_strategy raises for one
built(ss) ==
    LET bad == {i \in 1..Len(ss) : ~get_strategy(ss[i].strategy, i).ok}
    IN  IF bad = {} THEN ss
        ELSE SubSeq(ss, 1, (CHOOSE i \in bad : \A j \in bad : i <= j) - 1)

\* EngineManager.build_engines: for each stream of _streams in turn a
\* strategy from the registry and an engine on the manager's broker,
\* stored under the stream's name (a later stream of the same name
\* replaces the earlier engine)
build_engines(ss) ==
    [n \in {built(ss)[i].name : i \in 1..Len(built(ss))} |->
        LET i == CHOOSE k \in 1..Len(built(ss)) :
                    /\ built(ss)[k].name = n
                    /\ \A j \in 1..Len(built(ss)) : built(ss)[j].name = n => j <= k
        IN  TradingEngine(ss[i], SharedBroker, get_strategy(ss[i].strategy, i))]

\* the locals of one cycle of run()/run_once(), cleared between cycles.
\* Recorded for the cycle: cfg0 and dd0, the config and the tracker as they
\* were when the cycle began; dd1, the tracker right after the step-4
\* update; what each awaited call answered; the config values the cycle
\* read after its first suspension; n_*, the calls run_once issued.
NoCycle ==
    [hour |-> 0, cfg0 |-> StreamConfig("", ""), dd0 |-> NoTracker, dd1 |-> NoTracker,
     signal |-> NoSignal, eval |-> "", rl |-> "", acct |-> "", pos |-> "",
     order |-> "", sizing |-> "", equity |-> 0, units |-> 0, risk_used |-> 0, maxpos_used |-> 0,
     pos_seen |-> 0,
     n_eval |-> 0, n_rl |-> 0, n_acct |-> 0, n_pos |-> 0, n_order |-> 0]

\* asyncio.create_task(engine.run(max_cycles)): scheduled, not yet started
NewTask(name, max_cycles) ==
    [eng |-> name, pc |-> "new", cycle |-> 0, max_cycles |-> max_cycles,
     results |-> << >>, remaining |-> 0, poll_interval |-> 0, c |-> NoCycle]

\* ss: the streams of forge.json.  The manager keeps the enabled ones and
\* builds their engines; configure_routers seeds _live_settings from the
\* first stream of the file
InitWith(ss) ==
    /\ streams = SelectSeq(ss, LAMBDA s : s.enabled)
    /\ engines = build_engines(SelectSeq(ss, LAMBDA s : s.enabled))
    /\ tasks = << >>
    /\ mgr = [pc |-> "idle", idx |-> 0, task_of |-> [n \in {} |-> 0],
              results |-> [n \in {} |-> << >>], fetch_failed |-> {},
              stop_calls |-> 0]
    /\ broker = [positions |-> 0, last_units |-> 0]
    /\ live = [max_drawdown_pct |-> ConfigMaxDrawdownPct,
               max_concurrent_positions |-> ss[1].max_concurrent_positions,
               poll_interval_seconds |-> ss[1].poll_interval_seconds]
    /\ resumes = 0
    /\ reloads = 0
    /\ active = 0
    /\ http = HttpIdle

\* no risk function followed on its own
CalcIdle == [fn |-> "", pc |-> "idle"]

Init == InitWith(OneStream) /\ calc = CalcIdle

\* ------------------------------------------------------------- lifecycle
\* TradingEngine.initialize, from the point where get_account_summary has
\* answered with "out": the engine afterwards and whether the call raised.
\* A tracker constructor that raises inside the try block is caught by the
\* except clause, whose own DrawdownTracker(0.0) raises out of initialize.
initialize(e, out) ==
    LET first == DrawdownTracker_init(out.equity, ConfigMaxDrawdownPct)
        dummy == DrawdownTracker_init(0, ConfigMaxDrawdownPct)
    IN  IF out.ok /\ first.ok
        THEN [raised |-> FALSE,
              engine |-> [e EXCEPT !.drawdown = first.tracker, !.running = TRUE]]
        ELSE IF dummy.ok
        THEN [raised |-> FALSE,
              engine |-> [e EXCEPT !.drawdown = dummy.tracker, !.running = TRUE]]
        ELSE [raised |-> TRUE, engine |-> e]

\* variant: a stop that flips the flag
stop_toggle(e) == [e EXCEPT !.running = ~@]

\* TradingEngine.stop
stop(e) == [e EXCEPT !.running = FALSE]

\* EngineManager.run_all up to its first suspension: engines are built
\* (main.py builds them before), initialize_all calls initialize() on the
\* first engine, which awaits get_account_summary.
run_all ==
    /\ active = 0
    /\ mgr.pc = "idle"
    /\ mgr' = [mgr EXCEPT !.pc = "await_init", !.idx = 1]
    /\ UNCHANGED << calc, http, streams, engines, tasks, broker, live, resumes, reloads, active >>

\* the tasks run_all creates, one per engine in _engines order
LaunchAll ==
    tasks \o [i \in 1..Len(streams) |-> NewTask(streams[i].name, 0)]

\* initialize_all: the awaited get_account_summary of engine idx answers
\* (fetch_failed records the engines whose fetch raised; when the pc is
\* "raised", idx is the engine whose initialize() raised);
\* initialize() finishes, and either the next engine's initialize() is
\* called, or (last engine) run_all creates one task per engine and awaits
\* the first, or the exception leaves initialize_all and run_all.
initialize_all(out) ==
    /\ active = 0
    /\ mgr.pc = "await_init"
    /\ LET n == streams[mgr.idx].name
           r == initialize(engines[n], out)
           ff == IF out.ok THEN mgr.fetch_failed ELSE mgr.fetch_failed \cup {n}
       IN  /\ engines' = [engines EXCEPT ![n] = r.engine]
           /\ IF r.raised
              THEN /\ mgr' = [mgr EXCEPT !.pc = "raised", !.fetch_failed = ff]
                   /\ tasks' = tasks
              ELSE IF mgr.idx < Len(streams)
              THEN /\ mgr' = [mgr EXCEPT !.idx = @ + 1, !.fetch_failed = ff]
                   /\ tasks' = tasks
              ELSE /\ tasks' = LaunchAll
                   /\ mgr' = [mgr EXCEPT !.pc = "join", !.idx = 1, !.fetch_failed = ff,
                                  !.task_of = [i \in Names |->
                                      Len(tasks) + CHOOSE k \in 1..Len(streams) : streams[k].name = i]]
    /\ UNCHANGED << calc, http, streams, broker, live, resumes, reloads, active >>

\* what "await task" gives run_all for a finished task: the list run()
\* returned, or, when run() raised, the one error result of the except
\* clause
joined_result(tk) ==
    IF tk.pc = "crashed"
    THEN << [action |-> "error", reason |-> "crash"] >>
    ELSE tk.results

\* variant: run_all awaits the tasks without a try, so the exception of a
\* crashed loop leaves run_all
run_all_join_unguarded ==
    /\ active = 0
    /\ mgr.pc = "join"
    /\ LET n == streams[mgr.idx].name
           t == mgr.task_of[n]
       IN  /\ tasks[t].pc \in {"done", "crashed"}
           /\ mgr' = IF tasks[t].pc = "crashed"
                     THEN [mgr EXCEPT !.pc = "raised"]
                     ELSE [mgr EXCEPT
                            !.results = [k \in DOMAIN @ \cup {n} |->
                                            IF k = n THEN tasks[t].results ELSE @[k]],
                            !.idx = @ + 1,
                            !.pc = IF mgr.idx = Len(streams) THEN "returned" ELSE "join"]
    /\ UNCHANGED << calc, http, streams, engines, tasks, broker, live, resumes, reloads, active >>

\* run_all: "results[name] = await task" inside try/except for the tasks
\* in order, then return
run_all_join ==
    /\ active = 0
    /\ mgr.pc = "join"
    /\ LET n == streams[mgr.idx].name
           t == mgr.task_of[n]
       IN  /\ tasks[t].pc \in {"done", "crashed"}
           /\ mgr' = [mgr EXCEPT
                  !.results = [k \in DOMAIN @ \cup {n} |->
                                  IF k = n THEN joined_result(tasks[t]) ELSE @[k]],
                  !.idx = @ + 1,
                  !.pc = IF mgr.idx = Len(streams) THEN "returned" ELSE "join"]
    /\ UNCHANGED << calc, http, streams, engines, tasks, broker, live, resumes, reloads, active >>

\* ------------------------------------------------------------- run loop
halted_circuit_breaker == [action |-> "halted", reason |-> "circuit_breaker"]
skipped_outside_session == [action |-> "skipped", reason |-> "outside_session"]
skipped_no_signal == [action |-> "skipped", reason |-> "no_signal"]
skipped_rl_veto == [action |-> "skipped", reason |-> "rl_veto"]
skipped_max_positions == [action |-> "skipped", reason |-> "max_concurrent_positions"]
order_placed == [action |-> "order_placed", reason |-> "signal"]
error_result(msg) == [action |-> "error", reason |-> msg]

\* run(): run_once returned "res": results.append(result), then the
\* dashboard refresh awaits get_account_summary
Returned(tk, res) ==
    [tk EXCEPT !.results = Append(@, res), !.pc = "await_refresh"]

\* variant: the except clause only logs, recording nothing
Caught_unrecorded(tk, msg) == [tk EXCEPT !.pc = "after_cycle"]

\* run(): run_once raised: the except clause appends one error result and
\* control goes on to the max_cycles test
Caught(tk, msg) ==
    [tk EXCEPT !.results = Append(@, error_result(msg)), !.pc = "after_cycle"]

\* a task scheduled by create_task gets its first turn: run() up to the
\* while test; poll_interval is None, so the local takes the interval of
\* the stream config of that moment
run_start(t) ==
    /\ active = 0
    /\ tasks[t].pc = "new"
    /\ tasks' = [tasks EXCEPT ![t].pc = "loop_head",
                              ![t].poll_interval =
                                  engines[tasks[t].eng].stream_config.poll_interval_seconds]
    /\ active' = t
    /\ UNCHANGED << calc, http, streams, engines, mgr, broker, live, resumes, reloads >>

\* variant: a loop that never looks at the running flag
loop_test_ignored(e) == TRUE

\* "while self._running": the value of the test
loop_test(e) == e.running

\* run(): the while test; leaving the loop returns the results, entering
\* it counts the cycle and calls run_once.  A loop that has used up the
\* model horizon is parked and leaves only when running is false.
run_while(t) ==
    /\ \/ tasks[t].pc = "loop_head" /\ active = t
       \/ tasks[t].pc = "parked" /\ active = 0 /\ ~loop_test(engines[tasks[t].eng])
    /\ LET n == tasks[t].eng IN
       IF ~loop_test(engines[n])
       THEN /\ tasks' = [tasks EXCEPT ![t].pc = "done"]
            /\ active' = 0
            /\ engines' = engines
       ELSE IF tasks[t].cycle >= MaxCycles
       THEN /\ tasks' = [tasks EXCEPT ![t].pc = "parked"]
            /\ active' = 0
            /\ engines' = engines
       ELSE /\ tasks' = [tasks EXCEPT ![t].pc = "run_once", ![t].cycle = @ + 1]
            /\ engines' = [engines EXCEPT ![n].cycle_count = @ + 1]
            /\ active' = active
    /\ UNCHANGED << calc, http, streams, mgr, broker, live, resumes, reloads >>

\* variant: the session window tested before the circuit breaker
entry_gates_session_first(e, hour) ==
    IF ~(e.stream_config.session_start_utc <= hour
         /\ hour < e.stream_config.session_end_utc)
    THEN skipped_outside_session
    ELSE IF e.drawdown.present /\ circuit_breaker_active(e.drawdown)
    THEN halted_circuit_breaker
    ELSE [action |-> "evaluate", reason |-> ""]

\* run_once steps 1 and 2: the gate that applies before any await, or
\* "evaluate" when the strategy is to be consulted
entry_gates(e, hour) ==
    IF breaker_gate(e.drawdown)
    THEN halted_circuit_breaker
    ELSE IF ~is_in_session(hour, e.stream_config.session_start_utc,
                           e.stream_config.session_end_utc)
    THEN skipped_outside_session
    ELSE [action |-> "evaluate", reason |-> ""]

\* run_once from its start to its first await (strategy.evaluate) or to
\* its return at gate 1 or 2.  No registered strategy defines
\* SESSION_END_BUFFER_MIN, so gate 2b never applies, and an engine built
\* by the manager always has a strategy.
run_once_begin(t, hour) ==
    /\ active = t
    /\ tasks[t].pc = "run_once"
    /\ LET e == engines[tasks[t].eng]
           g == entry_gates(e, hour)
           tk == [tasks[t] EXCEPT !.c = [NoCycle EXCEPT !.hour = hour,
                                            !.cfg0 = e.stream_config,
                                            !.dd0 = e.drawdown]]
       IN  IF g.action = "evaluate"
           THEN tasks' = [tasks EXCEPT ![t] = [tk EXCEPT !.pc = "await_eval",
                                                         !.c.n_eval = @ + 1]]
           ELSE tasks' = [tasks EXCEPT ![t] = Returned(tk, g)]
    /\ active' = 0
    /\ UNCHANGED << calc, http, streams, engines, mgr, broker, live, resumes, reloads >>

\* step 3: strategy.evaluate answers None, a signal, or raises; with a
\* signal the RL filter (when loaded) fetches candles, else step 4 awaits
\* get_account_summary
evaluate_returns(t, out) ==
    /\ active = 0
    /\ tasks[t].pc = "await_eval"
    /\ LET e == engines[tasks[t].eng]
           tk == [tasks[t] EXCEPT !.c.eval = out.kind, !.c.signal = out.signal]
       IN  CASE out.kind = "raise" ->
                  /\ tasks' = [tasks EXCEPT ![t] = Caught(tk, "evaluate")]
                  /\ active' = t
             [] out.kind = "none" ->
                  /\ tasks' = [tasks EXCEPT ![t] = Returned(tk, skipped_no_signal)]
                  /\ active' = 0
             [] out.kind = "signal" ->
                  /\ tasks' = [tasks EXCEPT ![t] =
                        IF e.rl_mode = "active"
                        THEN [tk EXCEPT !.pc = "await_rl", !.c.n_rl = @ + 1]
                        ELSE [tk EXCEPT !.pc = "await_acct", !.c.n_acct = @ + 1]]
                  /\ active' = 0
    /\ UNCHANGED << calc, http, streams, engines, mgr, broker, live, resumes, reloads >>

EvalOutcomes ==
    {[kind |-> "none", signal |-> NoSignal], [kind |-> "raise", signal |-> NoSignal]}
    \cup {[kind |-> "signal", signal |-> sg] : sg \in Signals}

\* the RL filter block: candle fetches and assess(); a veto in active mode
\* ends the cycle, an approval or any exception goes on to step 4
rl_returns(t, out) ==
    /\ active = 0
    /\ tasks[t].pc = "await_rl"
    /\ LET tk == [tasks[t] EXCEPT !.c.rl = out]
       IN  tasks' = [tasks EXCEPT ![t] =
                IF out = "veto"
                THEN Returned(tk, skipped_rl_veto)
                ELSE [tk EXCEPT !.pc = "await_acct", !.c.n_acct = @ + 1]]
    /\ UNCHANGED << calc, http, streams, engines, mgr, broker, live, resumes, reloads, active >>

\* variant: the pip value not validated
calculate_units_pip_unchecked(equity, risk_pct, sl_distance_pips, pip_value) ==
    IF equity <= 0 \/ risk_pct <= 0 \/ sl_distance_pips <= 0
    THEN [ok |-> FALSE, num |-> 0, den |-> 1]
    ELSE [ok |-> TRUE, num |-> equity * risk_pct, den |-> sl_distance_pips * pip_value]

\* variant: the equity not validated
calculate_units_equity_unchecked(equity, risk_pct, sl_distance_pips, pip_value) ==
    IF risk_pct <= 0 \/ sl_distance_pips <= 0 \/ pip_value <= 0
    THEN [ok |-> FALSE, num |-> 0, den |-> 1]
    ELSE [ok |-> TRUE, num |-> equity * risk_pct, den |-> sl_distance_pips * pip_value]

\* calculate_units: rejects any non-positive input, else
\* (equity * risk_pct / 100) / (sl_distance_pips * pip_value), kept as the
\* exact quotient num / den (risk in hundredths of a percent, pip_value in
\* units of 0.0001)
calculate_units(equity, risk_pct, sl_distance_pips, pip_value) ==
    IF equity <= 0 \/ risk_pct <= 0 \/ sl_distance_pips <= 0 \/ pip_value <= 0
    THEN [ok |-> FALSE, num |-> 0, den |-> 1]
    ELSE [ok |-> TRUE, num |-> equity * risk_pct, den |-> sl_distance_pips * pip_value]

\* INSTRUMENT_PIP_VALUES.get(instrument, 0.0001), in units of 0.0001
pip_value_of(instrument) ==
    IF instrument \in {"USD_JPY", "XAU_USD"} THEN 100 ELSE 1

\* variant: the truncated size used as it is
order_units_truncated(u, direction) ==
    LET n == u.num \div u.den
    IN  IF direction = "sell" THEN 0 - n ELSE n

\* run_once step 4, sizing: int(units), at least 1, negated for a sell
order_units(u, direction) ==
    LET n == u.num \div u.den
        m == IF n = 0 THEN 1 ELSE n
    IN  IF direction = "sell" THEN 0 - m ELSE m

\* the risk percentage step 4 passes to calculate_units: self._risk_pct,
\* read from the engine's current stream config at that moment
risk_pct_read(e) == e.stream_config.risk_per_trade_pct

\* the limit the position-count guard reads: the current stream config's
\* max_concurrent_positions at that moment
max_positions_read(e) == e.stream_config.max_concurrent_positions

\* variant: the breaker re-checked on the tracker as it was before the update
breaker_stale_check(d, equity) ==
    [tracker |-> IF d.present THEN update(d, equity) ELSE d,
     halted |-> d.present /\ circuit_breaker_active(d)]

\* step 4, "self._drawdown.update(summary.equity)" followed by the breaker
\* re-check: the tracker afterwards and whether the cycle is halted
breaker_after_update(d, equity) ==
    LET d1 == IF d.present THEN update(d, equity) ELSE d
    IN  [tracker |-> d1, halted |-> breaker_gate(d1)]

\* step 4: get_account_summary answers; tracker update and breaker
\* re-check, sizing, then the position-count guard's query or the order
account_returns(t, out) ==
    /\ active = 0
    /\ tasks[t].pc = "await_acct"
    /\ LET n == tasks[t].eng
           e == engines[n]
           chk == breaker_after_update(e.drawdown, out.equity)
           d1 == chk.tracker
           risk == risk_pct_read(e)
           u == calculate_units(out.equity, risk, tasks[t].c.signal.sl_pips,
                                pip_value_of(e.stream_config.instrument))
           tk == [tasks[t] EXCEPT !.c.acct = IF out.ok THEN "ok" ELSE "raise"]
           tk1 == [tk EXCEPT !.c.equity = out.equity, !.c.dd1 = d1]
           tk2 == [tk1 EXCEPT !.c.risk_used = risk,
                              !.c.sizing = IF u.ok THEN "ok" ELSE "raise"]
           tk3 == [tk2 EXCEPT !.c.units = order_units(u, tasks[t].c.signal.direction)]
       IN  IF ~out.ok
           THEN /\ tasks' = [tasks EXCEPT ![t] = Caught(tk, "get_account_summary")]
                /\ engines' = engines
                /\ active' = t
           ELSE /\ engines' = [engines EXCEPT ![n].drawdown = d1]
                /\ IF chk.halted
                   THEN /\ tasks' = [tasks EXCEPT ![t] = Returned(tk1, halted_circuit_breaker)]
                        /\ active' = 0
                   ELSE IF ~u.ok
                   THEN /\ tasks' = [tasks EXCEPT ![t] = Caught(tk2, "calculate_units")]
                        /\ active' = t
                   ELSE IF max_positions_read(e) > 0
                   THEN /\ tasks' = [tasks EXCEPT ![t] =
                                [tk3 EXCEPT !.pc = "await_pos", !.c.n_pos = @ + 1]]
                        /\ active' = 0
                   ELSE /\ tasks' = [tasks EXCEPT ![t] =
                                [tk3 EXCEPT !.pc = "await_order", !.c.n_order = @ + 1]]
                        /\ active' = 0
    /\ UNCHANGED << calc, http, streams, mgr, broker, live, resumes, reloads >>

\* variant: a failed open-positions query blocks the order
positions_returns_fail_closed(t, ok) ==
    /\ active = 0
    /\ tasks[t].pc = "await_pos"
    /\ LET e == engines[tasks[t].eng]
           instrument_positions == broker.positions
           limit == max_positions_read(e)
           tk == [tasks[t] EXCEPT !.c.pos = IF ok THEN "ok" ELSE "raise"]
           tk1 == [tk EXCEPT !.c.pos_seen = instrument_positions,
                             !.c.maxpos_used = limit]
       IN  tasks' = [tasks EXCEPT ![t] =
               IF ~ok THEN Returned(tk, skipped_max_positions)
               ELSE IF instrument_positions >= limit
               THEN Returned(tk1, skipped_max_positions)
               ELSE [tk1 EXCEPT !.pc = "await_order", !.c.n_order = @ + 1]]
    /\ UNCHANGED << calc, http, streams, engines, mgr, broker, live, resumes, reloads, active >>

\* step 4b: list_open_positions answers (the positions on this engine's
\* instrument are counted, those on others ignored) or raises; a raise is
\* swallowed and the order goes ahead
positions_returns(t, ok) ==
    /\ active = 0
    /\ tasks[t].pc = "await_pos"
    /\ LET e == engines[tasks[t].eng]
           instrument_positions == broker.positions
           limit == max_positions_read(e)
           tk == [tasks[t] EXCEPT !.c.pos = IF ok THEN "ok" ELSE "raise"]
           tk1 == [tk EXCEPT !.c.pos_seen = instrument_positions,
                             !.c.maxpos_used = limit]
       IN  tasks' = [tasks EXCEPT ![t] =
               IF ok /\ instrument_positions >= limit
               THEN Returned(tk1, skipped_max_positions)
               ELSE [(IF ok THEN tk1 ELSE tk) EXCEPT !.pc = "await_order",
                                                     !.c.n_order = @ + 1]]
    /\ UNCHANGED << calc, http, streams, engines, mgr, broker, live, resumes, reloads, active >>

\* step 5: place_order answers with a fill (the account holds one more
\* position) or raises
order_returns(t, ok) ==
    /\ active = 0
    /\ tasks[t].pc = "await_order"
    /\ ok => broker.positions < MaxPositions
    /\ LET tk == [tasks[t] EXCEPT !.c.order = IF ok THEN "ok" ELSE "raise"]
       IN  IF ok
           THEN /\ tasks' = [tasks EXCEPT ![t] = Returned(tk, order_placed)]
                /\ broker' = [broker EXCEPT !.positions = @ + 1,
                                            !.last_units = tasks[t].c.units]
                /\ active' = 0
           ELSE /\ tasks' = [tasks EXCEPT ![t] = Caught(tk, "place_order")]
                /\ broker' = broker
                /\ active' = t
    /\ UNCHANGED << calc, http, streams, engines, mgr, live, resumes, reloads >>

\* variant: no dashboard refresh of the tracker after a halted cycle
refresh_returns_unless_halted(t, out) ==
    /\ active = 0
    /\ tasks[t].pc = "await_refresh"
    /\ LET n == tasks[t].eng
           e == engines[n]
           r == tasks[t].results[Len(tasks[t].results)]
       IN  engines' = IF out.ok /\ e.drawdown.present /\ r.action # "halted"
                      THEN [engines EXCEPT ![n].drawdown = update(e.drawdown, out.equity)]
                      ELSE engines
    /\ tasks' = [tasks EXCEPT ![t].pc = "after_cycle"]
    /\ active' = t
    /\ UNCHANGED << calc, http, streams, mgr, broker, live, resumes, reloads >>

\* run(): the dashboard refresh's get_account_summary answers; the tracker
\* is updated with the equity, a failure is swallowed
refresh_returns(t, out) ==
    /\ active = 0
    /\ tasks[t].pc = "await_refresh"
    /\ LET n == tasks[t].eng
           e == engines[n]
       IN  engines' = IF out.ok /\ e.drawdown.present
                      THEN [engines EXCEPT ![n].drawdown = update(e.drawdown, out.equity)]
                      ELSE engines
    /\ tasks' = [tasks EXCEPT ![t].pc = "after_cycle"]
    /\ active' = t
    /\ UNCHANGED << calc, http, streams, mgr, broker, live, resumes, reloads >>

\* the interval run() sleeps after a cycle: re-read from the current
\* stream config
current_interval(e) == e.stream_config.poll_interval_seconds

\* variant: the sleep loop ranges over the poll_interval local that run()
\* set when it started
after_cycle_captured(t) ==
    /\ active = t
    /\ tasks[t].pc = "after_cycle"
    /\ IF tasks[t].max_cycles > 0 /\ tasks[t].cycle >= tasks[t].max_cycles
       THEN /\ tasks' = [tasks EXCEPT ![t].pc = "done", ![t].c = NoCycle]
            /\ active' = 0
       ELSE /\ tasks' = [tasks EXCEPT ![t].pc = "sleep_check", ![t].c = NoCycle,
                              ![t].remaining = tasks[t].poll_interval]
            /\ active' = active
    /\ UNCHANGED << calc, http, streams, engines, mgr, broker, live, resumes, reloads >>

\* variant: a loop that has no cycle limit and sleeps after every cycle
after_cycle_unlimited(t) ==
    /\ active = t
    /\ tasks[t].pc = "after_cycle"
    /\ tasks' = [tasks EXCEPT ![t].pc = "sleep_check", ![t].c = NoCycle,
                              ![t].remaining = current_interval(engines[tasks[t].eng])]
    /\ active' = active
    /\ UNCHANGED << calc, http, streams, engines, mgr, broker, live, resumes, reloads >>

\* run(): "if max_cycles > 0 and cycle >= max_cycles: break", else read the
\* interval and enter the sleep loop
after_cycle(t) ==
    /\ active = t
    /\ tasks[t].pc = "after_cycle"
    /\ IF tasks[t].max_cycles > 0 /\ tasks[t].cycle >= tasks[t].max_cycles
       THEN /\ tasks' = [tasks EXCEPT ![t].pc = "done", ![t].c = NoCycle]
            /\ active' = 0
       ELSE /\ tasks' = [tasks EXCEPT ![t].pc = "sleep_check", ![t].c = NoCycle,
                              ![t].remaining = current_interval(engines[tasks[t].eng])]
            /\ active' = active
    /\ UNCHANGED << calc, http, streams, engines, mgr, broker, live, resumes, reloads >>

\* variant: one uninterruptible sleep of the whole interval, split in
\* seconds without looking at the running flag
sleep_check_unchecked(t) ==
    /\ active = t
    /\ tasks[t].pc = "sleep_check"
    /\ IF tasks[t].remaining = 0
       THEN /\ tasks' = [tasks EXCEPT ![t].pc = "loop_head"]
            /\ active' = active
       ELSE /\ tasks' = [tasks EXCEPT ![t].pc = "sleeping"]
            /\ active' = 0
    /\ UNCHANGED << calc, http, streams, engines, mgr, broker, live, resumes, reloads >>

\* one iteration of "for _ in range(current_interval)": leave the loop
\* when the range is used up or running is false, else await sleep(1)
sleep_check(t) ==
    /\ active = t
    /\ tasks[t].pc = "sleep_check"
    /\ IF tasks[t].remaining = 0 \/ ~engines[tasks[t].eng].running
       THEN /\ tasks' = [tasks EXCEPT ![t].pc = "loop_head"]
            /\ active' = active
       ELSE /\ tasks' = [tasks EXCEPT ![t].pc = "sleeping"]
            /\ active' = 0
    /\ UNCHANGED << calc, http, streams, engines, mgr, broker, live, resumes, reloads >>

\* asyncio.sleep(1) is over
sleep_wakes(t) ==
    /\ active = 0
    /\ tasks[t].pc = "sleeping"
    /\ tasks' = [tasks EXCEPT ![t].pc = "sleep_check", ![t].remaining = @ - 1]
    /\ active' = t
    /\ UNCHANGED << calc, http, streams, engines, mgr, broker, live, resumes, reloads >>

\* an exception raised by the code of run() that lies outside its try
\* (max_cycles test, interval read, status update) leaves run(): the task
\* ends with the exception
run_raises(t) ==
    /\ active = t
    /\ tasks[t].pc = "after_cycle"
    /\ tasks' = [tasks EXCEPT ![t].pc = "crashed", ![t].c = NoCycle]
    /\ active' = 0
    /\ UNCHANGED << calc, http, streams, engines, mgr, broker, live, resumes, reloads >>

\* a position on the instrument is closed at the broker (stop or target hit)
position_closes ==
    /\ active = 0
    /\ broker.positions > 0
    /\ broker' = [broker EXCEPT !.positions = @ - 1]
    /\ UNCHANGED << calc, http, streams, engines, tasks, mgr, live, resumes, reloads, active >>

\* ------------------------------------------------------ control handlers
\* variant: the stop signal sent to every engine, whatever the name
stop_stream_everyone(name) ==
    /\ active = 0
    /\ engines' = [n \in DOMAIN engines |-> [engines[n] EXCEPT !.running = FALSE]]
    /\ UNCHANGED << calc, http, streams, tasks, mgr, broker, live, resumes, reloads, active >>

\* EngineManager.stop_stream(name) and POST /control/stream/{name}/pause:
\* engine.stop() on the named engine, nothing for an unknown name
stop_stream(name) ==
    /\ active = 0
    /\ engines' = IF name \in DOMAIN engines
                  THEN [engines EXCEPT ![name] = stop(@)]
                  ELSE engines
    /\ UNCHANGED << calc, http, streams, tasks, mgr, broker, live, resumes, reloads, active >>

\* the record of stop_all calls made since run_all began (stop_calls, up
\* to MaxStopCalls) after one more call
stop_all_called(m) ==
    [m EXCEPT !.stop_calls = IF m.pc # "idle" /\ @ < MaxStopCalls THEN @ + 1 ELSE @]

\* EngineManager.stop_all, as called by POST /control/pause and
\* /control/emergency-stop
stop_all ==
    /\ active = 0
    /\ engines' = [n \in DOMAIN engines |-> stop(engines[n])]
    /\ UNCHANGED << calc, http, streams, tasks, mgr, broker, live, resumes, reloads, active >>

\* stop_all again, with the call noted in the manager's call record
stop_all_recorded ==
    /\ active = 0
    /\ engines' = [n \in DOMAIN engines |-> stop(engines[n])]
    /\ mgr' = stop_all_called(mgr)
    /\ UNCHANGED << calc, http, streams, tasks, broker, live, resumes, reloads, active >>

\* main.handle_shutdown: the SIGINT handler calls manager.stop_all(); a
\* Python signal handler runs between two bytecodes of whatever is
\* executing, so it does not wait for the event loop to be idle
handle_shutdown ==
    /\ engines' = [n \in DOMAIN engines |-> stop(engines[n])]
    /\ UNCHANGED << calc, http, streams, tasks, mgr, broker, live, resumes, reloads, active >>

\* handle_shutdown again, with its stop_all call noted in the call record
handle_shutdown_recorded ==
    /\ engines' = [n \in DOMAIN engines |-> stop(engines[n])]
    /\ mgr' = stop_all_called(mgr)
    /\ UNCHANGED << calc, http, streams, tasks, broker, live, resumes, reloads, active >>

\* what resume_stream / resume_all do to one engine that is not running:
\* set _running and create a task for engine.run()
resume_engine(e) == [e EXCEPT !.running = TRUE]

\* POST /control/stream/{name}/resume
resume_stream(name) ==
    /\ active = 0
    /\ IF name \in DOMAIN engines /\ ~engines[name].running
       THEN /\ resumes < MaxResumes
            /\ engines' = [engines EXCEPT ![name] = resume_engine(@)]
            /\ tasks' = Append(tasks, NewTask(name, 0))
            /\ resumes' = resumes + 1
       ELSE UNCHANGED << engines, tasks, resumes, reloads >>
    /\ UNCHANGED << calc, http, streams, mgr, broker, live, reloads, active >>

\* POST /control/resume: every engine that is not running is resumed
resume_all ==
    /\ active = 0
    /\ LET idle == {i \in 1..Len(streams) : ~engines[streams[i].name].running}
           pos(i) == Cardinality({j \in idle : j <= i})
       IN  /\ resumes + Cardinality(idle) <= MaxResumes
           /\ engines' = [n \in DOMAIN engines |->
                            IF engines[n].running THEN engines[n]
                            ELSE resume_engine(engines[n])]
           /\ tasks' = tasks \o [k \in 1..Cardinality(idle) |->
                   NewTask(streams[CHOOSE i \in idle : pos(i) = k].name, 0)]
           /\ resumes' = resumes + Cardinality(idle)
    /\ UNCHANGED << calc, http, streams, mgr, broker, live, reloads, active >>

\* ----------------------------------------------------- settings handlers
Has(body, key) == key \in DOMAIN body

\* _apply_settings_to_engines, for one engine: the StreamConfig is rebuilt
\* with poll interval and max positions from _live_settings (rl_filter is
\* not passed on, so it takes its default None) and the reference
\* replaced; the tracker's threshold is overwritten in place
apply_settings_to_engine(e, lv) ==
    [e EXCEPT
        !.stream_config = [@ EXCEPT !.poll_interval_seconds = lv.poll_interval_seconds,
                                    !.max_concurrent_positions = lv.max_concurrent_positions,
                                    !.rl_filter = "none"],
        !.drawdown = IF @.present
                     THEN [@ EXCEPT !.max_drawdown_pct = lv.max_drawdown_pct]
                     ELSE @]

\* post_settings, the validation pass: each key that is present and in
\* range is written to _live_settings as it is checked
validated_settings(lv, body) ==
    LET l1 == IF Has(body, "max_drawdown_pct")
                 /\ DdMin <= body.max_drawdown_pct /\ body.max_drawdown_pct <= DdMax
              THEN [lv EXCEPT !.max_drawdown_pct = body.max_drawdown_pct] ELSE lv
        l2 == IF Has(body, "max_concurrent_positions")
                 /\ PosMin <= body.max_concurrent_positions
                 /\ body.max_concurrent_positions <= PosMax
              THEN [l1 EXCEPT !.max_concurrent_positions = body.max_concurrent_positions]
              ELSE l1
        l3 == IF Has(body, "poll_interval_seconds")
                 /\ PollMin <= body.poll_interval_seconds
                 /\ body.poll_interval_seconds <= PollMax
              THEN [l2 EXCEPT !.poll_interval_seconds = body.poll_interval_seconds]
              ELSE l2
    IN  l3

settings_errors(body) ==
    \/ Has(body, "max_drawdown_pct")
        /\ ~(DdMin <= body.max_drawdown_pct /\ body.max_drawdown_pct <= DdMax)
    \/ Has(body, "max_concurrent_positions")
        /\ ~(PosMin <= body.max_concurrent_positions
             /\ body.max_concurrent_positions <= PosMax)
    \/ Has(body, "poll_interval_seconds")
        /\ ~(PollMin <= body.poll_interval_seconds
             /\ body.poll_interval_seconds <= PollMax)

\* POST /settings
post_settings(body) ==
    /\ active = 0
    /\ reloads < MaxReloads
    /\ reloads' = reloads + 1
    /\ live' = validated_settings(live, body)
    /\ engines' = IF settings_errors(body)
                  THEN engines
                  ELSE [n \in DOMAIN engines |->
                            apply_settings_to_engine(engines[n], live')]
    /\ UNCHANGED << calc, http, streams, tasks, mgr, broker, resumes, active >>

stream_update_errors(upd) ==
    \/ Has(upd, "risk_per_trade_pct")
        /\ ~(RiskMin <= upd.risk_per_trade_pct /\ upd.risk_per_trade_pct <= RiskMax)
    \/ Has(upd, "session_start_utc")
        /\ ~(0 <= upd.session_start_utc /\ upd.session_start_utc <= SessStartMax)
    \/ Has(upd, "session_end_utc")
        /\ ~(SessEndMin <= upd.session_end_utc /\ upd.session_end_utc <= SessEndMax)

\* post_stream_settings, for the engine an update names: a new
\* StreamConfig with the named fields replaced (rl_filter not passed on)
apply_stream_update(e, upd) ==
    [e EXCEPT !.stream_config = [@ EXCEPT
        !.risk_per_trade_pct = IF Has(upd, "risk_per_trade_pct")
                               THEN upd.risk_per_trade_pct ELSE @,
        !.session_start_utc = IF Has(upd, "session_start_utc")
                              THEN upd.session_start_utc ELSE @,
        !.session_end_utc = IF Has(upd, "session_end_utc")
                            THEN upd.session_end_utc ELSE @,
        !.rl_filter = "none"]]

\* POST /stream-settings with one update in the body
post_stream_settings(upd) ==
    /\ active = 0
    /\ reloads < MaxReloads
    /\ reloads' = reloads + 1
    /\ engines' = IF ~stream_update_errors(upd) /\ upd.name \in DOMAIN engines
                  THEN [engines EXCEPT ![upd.name] = apply_stream_update(@, upd)]
                  ELSE engines
    /\ UNCHANGED << calc, http, streams, tasks, mgr, broker, live, resumes, active >>

\* request bodies
SettingsBodies ==
    { [max_concurrent_positions |-> 2],
      [max_drawdown_pct |-> 200],
      [poll_interval_seconds |-> 10],
      [max_drawdown_pct |-> 200, poll_interval_seconds |-> 5] }

StreamUpdates(ns) ==
    UNION { { [name |-> n, risk_per_trade_pct |-> 200],
              [name |-> n, session_end_utc |-> 20],
              [name |-> n, risk_per_trade_pct |-> 600] } : n \in ns }

\* ------------------------------------------------- _request_with_retry
\* variant: every 5xx status counted as retryable
is_retryable_any_5xx(code) == code = 429 \/ code >= 500

\* "resp.status_code in _RETRYABLE_STATUS_CODES"
is_retryable(code) == code \in RetryableStatusCodes

\* resp.raise_for_status(): an error status raises HTTPStatusError
raise_for_status(code) == code >= 400

\* "_RETRY_BASE_DELAY * (2 ** attempt)", attempt counted from 0
backoff_delay(attempt) == RetryBaseDelay * 2 ^ attempt

\* variant: mutating requests sent once, only reads retried
attempts_allowed_reads_only(method) == IF method = "get" THEN MaxRetries ELSE 1

\* "for attempt in range(_MAX_RETRIES)": the same ceiling for every method
attempts_allowed(method) == MaxRetries

\* a retryable status or a transport error: the delay is computed from
\* the attempt number, last_exc is set and asyncio.sleep(delay) awaited
retryable_failure(h, resp) ==
    [h EXCEPT !.pc = "backoff", !.delays = Append(@, backoff_delay(h.attempt)),
              !.last_exc = resp]

\* variant: a backoff sleep before the error of a non-retryable status is
\* raised
non_retryable_delayed(h, resp) ==
    [h EXCEPT !.pc = "raised", !.raised = resp,
              !.delays = Append(@, backoff_delay(h.attempt))]

\* raise_for_status() raises: HTTPStatusError is not a TransportError, so
\* it leaves _request_with_retry at once
non_retryable(h, resp) == [h EXCEPT !.pc = "raised", !.raised = resp]

\* a client method calls _request_with_retry: the loop starts with
\* attempt 0 and no last_exc
request_begin(call) ==
    /\ http.pc \in {"idle", "returned", "raised"}
    /\ http.calls < MaxCalls
    /\ http' = [HttpIdle EXCEPT !.pc = "attempt", !.call = call,
                                !.calls = http.calls + 1]
    /\ UNCHANGED << calc, streams, engines, tasks, mgr, broker, live, resumes, reloads, active >>

\* one pass of the loop body: the request is sent and answered by resp
attempt_responds(resp) ==
    /\ http.pc = "attempt"
    /\ LET h == [http EXCEPT !.log = Append(@, resp),
                             !.requests = Append(@, [method |-> http.call.method,
                                                     path |-> http.call.path,
                                                     headers |-> http.call.headers,
                                                     body |-> http.call.body]),
                             !.executed = IF resp.processed THEN @ + 1 ELSE @]
       IN  http' = IF resp.kind = "transport" THEN retryable_failure(h, resp)
                   ELSE IF is_retryable(resp.code) THEN retryable_failure(h, resp)
                   ELSE IF raise_for_status(resp.code) THEN non_retryable(h, resp)
                   ELSE [h EXCEPT !.pc = "returned"]
    /\ UNCHANGED << calc, streams, engines, tasks, mgr, broker, live, resumes, reloads, active >>

\* asyncio.sleep(delay) is over: the for loop takes the next attempt
\* number, or is exhausted and "raise last_exc" ends the call
backoff_over ==
    /\ http.pc = "backoff"
    /\ http' = IF http.attempt + 1 < attempts_allowed(http.call.method)
               THEN [http EXCEPT !.pc = "attempt", !.attempt = @ + 1]
               ELSE [http EXCEPT !.pc = "raised", !.attempt = @ + 1,
                                 !.raised = http.last_exc]
    /\ UNCHANGED << calc, streams, engines, tasks, mgr, broker, live, resumes, reloads, active >>

\* ------------------------------------------------------------------ spec
\* the steps of the run loops and of run_all, under the broker answers
\* "accts" and the strategy answers "evals"
Loop(accts, evals, hours, oks) ==
    \/ run_all
    \/ \E out \in accts : initialize_all(out)
    \/ run_all_join
    \/ \E t \in TaskIds : run_start(t)
    \/ \E t \in TaskIds : run_while(t)
    \/ \E t \in TaskIds, hour \in hours : run_once_begin(t, hour)
    \/ \E t \in TaskIds, out \in evals : evaluate_returns(t, out)
    \/ \E t \in TaskIds, out \in accts : account_returns(t, out)
    \/ \E t \in TaskIds, ok \in oks : positions_returns(t, ok)
    \/ \E t \in TaskIds, ok \in oks : order_returns(t, ok)
    \/ \E t \in TaskIds, out \in accts : refresh_returns(t, out)
    \/ \E t \in TaskIds : after_cycle(t)
    \/ \E t \in TaskIds : sleep_check(t)
    \/ \E t \in TaskIds : sleep_wakes(t)
    \/ position_closes

Stops ==
    \/ \E n \in Names \cup {UnknownStream} : stop_stream(n)
    \/ stop_all
    \/ handle_shutdown

Resumes ==
    \/ \E n \in Names \cup {UnknownStream} : resume_stream(n)
    \/ resume_all

Reloads ==
    \/ \E body \in SettingsBodies : post_settings(body)
    \/ \E upd \in StreamUpdates(Names \cup {UnknownStream}) : post_stream_settings(upd)

RlFilter ==
    \E t \in TaskIds, out \in {"take", "veto", "error"} : rl_returns(t, out)

Next ==
    \/ Loop(AccountOutcomes, EvalOutcomes, HourSet, BOOLEAN)
    \/ RlFilter
    \/ Stops
    \/ Reloads

Spec == Init /\ [][Next]_vars

\* pause / resume interleavings of one stream, under fewer broker answers
ControlAccounts == {[ok |-> TRUE, equity |-> 100]}
ControlEvals == {[kind |-> "signal", signal |-> [direction |-> "buy", sl_pips |-> 30]]}
ControlHours == {7, 21}

InitControl == InitWith(<< StreamConfig("s1", "disabled") >>) /\ calc = CalcIdle

NextControl ==
    \/ Loop(ControlAccounts, ControlEvals, ControlHours, {TRUE})
    \/ Stops
    \/ Resumes

SpecControl == InitControl /\ [][NextControl]_vars

\* two streams under one manager
InitFleet == InitWith(TwoStreams) /\ calc = CalcIdle

FleetAccounts == {[ok |-> TRUE, equity |-> 100], Failed}

Crashes == \E t \in TaskIds : run_raises(t)

\* the stop requests, every stop_all call recorded
RecordedStops ==
    \/ \E n \in Names \cup {UnknownStream} : stop_stream(n)
    \/ stop_all_recorded
    \/ handle_shutdown_recorded

NextFleet ==
    \/ Loop(FleetAccounts, ControlEvals, {7}, {TRUE})
    \/ RecordedStops
    \/ Crashes

SpecFleet == InitFleet /\ [][NextFleet]_vars

\* engine.initialize() then engine.run(max_cycles = n) called on one
\* engine directly, as the integration tests do: no manager task
InitBounded ==
    /\ InitWith(OneStream)
    /\ calc = CalcIdle

\* the direct call: the engine is initialized with an account that
\* answers, and the coroutine of run(max_cycles) is scheduled
run_called(max_cycles) ==
    /\ active = 0
    /\ tasks = << >>
    /\ ~engines["s1"].running
    /\ engines' = [engines EXCEPT !["s1"] = initialize(@, [ok |-> TRUE, equity |-> 100]).engine]
    /\ tasks' = << NewTask("s1", max_cycles) >>
    /\ UNCHANGED << calc, http, streams, mgr, broker, live, resumes, reloads, active >>

NextBounded ==
    \/ \E n \in 0..MaxCycles : run_called(n)
    \/ \E t \in TaskIds : run_start(t)
    \/ \E t \in TaskIds : run_while(t)
    \/ \E t \in TaskIds : run_once_begin(t, 7)
    \/ \E t \in TaskIds, out \in EvalOutcomes : evaluate_returns(t, out)
    \/ RlFilter
    \/ \E t \in TaskIds, out \in FleetAccounts : account_returns(t, out)
    \/ \E t \in TaskIds, ok \in BOOLEAN : positions_returns(t, ok)
    \/ \E t \in TaskIds, ok \in BOOLEAN : order_returns(t, ok)
    \/ \E t \in TaskIds, out \in FleetAccounts : refresh_returns(t, out)
    \/ \E t \in TaskIds : after_cycle(t)
    \/ \E t \in TaskIds : sleep_check(t)
    \/ \E t \in TaskIds : sleep_wakes(t)
    \/ position_closes
    \/ tasks # << >> /\ stop_stream("s1")

SpecBounded == InitBounded /\ [][NextBounded]_vars

\* EngineManager(config, broker, streams) constructed from a stream list,
\* build_engines not yet called: up to three streams of different names,
\* each enabled or not, with a registered or an unregistered strategy key
InitBuild ==
    /\ \E ss \in UNION {[1..k -> [name : {"s1", "s2", "s3"}, enabled : BOOLEAN,
                                  strategy : STRATEGY_REGISTRY \cup {"nope"}]] : k \in 0..3} :
          /\ \A i, j \in 1..Len(ss) : ss[i].name = ss[j].name => i = j
          /\ calc = [fn |-> "build_engines", pc |-> "called",
                     inp |-> [i \in 1..Len(ss) |->
                                [StreamConfig(ss[i].name, "disabled") EXCEPT
                                    !.enabled = ss[i].enabled, !.strategy = ss[i].strategy]]]
          /\ streams = SelectSeq(calc.inp, LAMBDA sc : sc.enabled)
    /\ engines = [n \in {} |-> 0]
    /\ tasks = << >>
    /\ mgr = [pc |-> "idle", idx |-> 0, task_of |-> [n \in {} |-> 0],
              results |-> [n \in {} |-> << >>], fetch_failed |-> {},
              stop_calls |-> 0]
    /\ broker = [positions |-> 0, last_units |-> 0]
    /\ live = [max_drawdown_pct |-> ConfigMaxDrawdownPct,
               max_concurrent_positions |-> 1, poll_interval_seconds |-> 2]
    /\ resumes = 0
    /\ reloads = 0
    /\ active = 0
    /\ http = HttpIdle

\* manager.build_engines() runs: the engines it stored, and whether it
\* returned or left with the KeyError of get_strategy
build_engines_runs ==
    /\ calc.pc = "called"
    /\ engines' = build_engines(streams)
    /\ calc' = [calc EXCEPT !.pc = IF built(streams) = streams THEN "returned" ELSE "raised"]
    /\ UNCHANGED << http, streams, tasks, mgr, broker, live, resumes, reloads, active >>

SpecBuild == InitBuild /\ [][build_engines_runs]_vars

\* one stream whose account may report an equity of zero or below, with
\* or without a tracker (an engine whose initialize() failed and that was
\* resumed afterwards has none)
NextEquity ==
    \/ Loop({[ok |-> TRUE, equity |-> e] : e \in {0 - 50, 0, 100}} \cup {Failed},
            ControlEvals, {7}, {TRUE})
    \/ Stops
    \/ Resumes

SpecEquity == InitControl /\ [][NextEquity]_vars

\* one broker call followed through its HTTP attempts
NextBroker ==
    \/ \E call \in BrokerCalls : request_begin(call)
    \/ \E resp \in Responses : attempt_responds(resp)
    \/ backoff_over

SpecBroker == Init /\ [][NextBroker]_vars

\* ------------------------------------------- calculate_zone_anchored_risk
\* Prices, distances and the ATR in points (0.00001); rr_ratio and the ATR
\* multiples in tenths; a distance that need not be a whole number of
\* points is the fraction num / den.  triggering_zone 0 stands for None.

\* round(x, 5) of the price num / den points: to the nearest point, a tie
\* to the even one
round5(num, den) ==
    LET q == num \div den
        r == num % den
    IN  IF 2 * r < den THEN q
        ELSE IF 2 * r > den THEN q + 1
        ELSE IF q % 2 = 0 THEN q ELSE q + 1

\* variant: a zone qualifies only when farther than min_tp_dist
valid_zones_farther(candidates, entry_price, direction, atr, min_tp_atr_mult) ==
    IF direction = "buy"
    THEN SelectSeq(candidates, LAMBDA z :
            z > entry_price /\ (z - entry_price) * 10 > min_tp_atr_mult * atr)
    ELSE SelectSeq(candidates, LAMBDA z :
            z < entry_price /\ (entry_price - z) * 10 > min_tp_atr_mult * atr)

\* the zones of "candidates" beyond entry in the profit direction and at
\* least min_tp_dist = min_tp_atr_mult * atr away
valid_zones(candidates, entry_price, direction, atr, min_tp_atr_mult) ==
    IF direction = "buy"
    THEN SelectSeq(candidates, LAMBDA z :
            z > entry_price /\ (z - entry_price) * 10 >= min_tp_atr_mult * atr)
    ELSE SelectSeq(candidates, LAMBDA z :
            z < entry_price /\ (entry_price - z) * 10 >= min_tp_atr_mult * atr)

\* sorted(valid_zones, key = price for buy, -price for sell)[0].price_level
first_sorted(zones, direction) ==
    LET keyof(z) == IF direction = "buy" THEN z ELSE 0 - z
    IN  zones[CHOOSE i \in 1..Len(zones) :
                  \A j \in 1..Len(zones) :
                      /\ keyof(zones[i]) <= keyof(zones[j])
                      /\ keyof(zones[i]) = keyof(zones[j]) => i <= j]

\* what the function leaves with when it returns None or raises
NoLevels(kind) ==
    [kind |-> kind, sl |-> 0, tp |-> 0, tp_source |-> "", target |-> 0,
     sl_dist |-> [num |-> 0, den |-> 1], tp_dist |-> [num |-> 0, den |-> 1]]

\* variant: a derived stop equal to the floor rejected as well
zone_path_floor_excluded(entry_price, direction, tp_price, atr, rr_ratio, min_sl_atr_mult, max_sl_atr_mult) ==
    LET tp_dist == IF tp_price >= entry_price THEN tp_price - entry_price
                   ELSE entry_price - tp_price
        sl_dist == IF tp_dist * 100 <= max_sl_atr_mult * atr * rr_ratio
                   THEN [num |-> tp_dist * 10, den |-> rr_ratio]
                   ELSE [num |-> max_sl_atr_mult * atr, den |-> 10]
        sl_num == IF direction = "buy"
                  THEN entry_price * sl_dist.den - sl_dist.num
                  ELSE entry_price * sl_dist.den + sl_dist.num
    IN  IF tp_dist * 100 <= min_sl_atr_mult * atr * rr_ratio
        THEN [NoLevels("none") EXCEPT !.target = tp_price]
        ELSE [kind |-> "levels", sl |-> round5(sl_num, sl_dist.den),
              tp |-> tp_price, tp_source |-> "zone", target |-> tp_price,
              sl_dist |-> sl_dist, tp_dist |-> [num |-> tp_dist, den |-> 1]]

\* variant: the derived stop distance used without the cap
zone_path_uncapped(entry_price, direction, tp_price, atr, rr_ratio, min_sl_atr_mult, max_sl_atr_mult) ==
    LET tp_dist == IF tp_price >= entry_price THEN tp_price - entry_price
                   ELSE entry_price - tp_price
        sl_dist == [num |-> tp_dist * 10, den |-> rr_ratio]
        sl_num == IF direction = "buy"
                  THEN entry_price * sl_dist.den - sl_dist.num
                  ELSE entry_price * sl_dist.den + sl_dist.num
    IN  IF tp_dist * 100 < min_sl_atr_mult * atr * rr_ratio
        THEN [NoLevels("none") EXCEPT !.target = tp_price]
        ELSE [kind |-> "levels", sl |-> round5(sl_num, sl_dist.den),
              tp |-> tp_price, tp_source |-> "zone", target |-> tp_price,
              sl_dist |-> sl_dist, tp_dist |-> [num |-> tp_dist, den |-> 1]]

\* the zone-anchored path: derived_sl_dist = tp_dist / rr_ratio; None when
\* it is below min_sl; sl_dist = min(derived_sl_dist, max_sl); the stop on
\* the loss side of entry, both prices rounded
zone_path(entry_price, direction, tp_price, atr, rr_ratio, min_sl_atr_mult, max_sl_atr_mult) ==
    LET tp_dist == IF tp_price >= entry_price THEN tp_price - entry_price
                   ELSE entry_price - tp_price
        sl_dist == IF tp_dist * 100 <= max_sl_atr_mult * atr * rr_ratio
                   THEN [num |-> tp_dist * 10, den |-> rr_ratio]
                   ELSE [num |-> max_sl_atr_mult * atr, den |-> 10]
        sl_num == IF direction = "buy"
                  THEN entry_price * sl_dist.den - sl_dist.num
                  ELSE entry_price * sl_dist.den + sl_dist.num
    IN  IF tp_dist * 100 < min_sl_atr_mult * atr * rr_ratio
        THEN [NoLevels("none") EXCEPT !.target = tp_price]
        ELSE [kind |-> "levels", sl |-> round5(sl_num, sl_dist.den),
              tp |-> tp_price, tp_source |-> "zone", target |-> tp_price,
              sl_dist |-> sl_dist, tp_dist |-> [num |-> tp_dist, den |-> 1]]

\* variant: the fallback target at the stop distance, whatever rr_ratio
atr_fallback_one_to_one(entry_price, direction, atr, rr_ratio, max_sl_atr_mult) ==
    LET sl_dist == [num |-> max_sl_atr_mult * atr, den |-> 10]
    IN  [kind |-> "levels",
         sl |-> IF direction = "buy"
                THEN round5(entry_price * 10 - sl_dist.num, 10)
                ELSE round5(entry_price * 10 + sl_dist.num, 10),
         tp |-> IF direction = "buy"
                THEN round5(entry_price * 10 + sl_dist.num, 10)
                ELSE round5(entry_price * 10 - sl_dist.num, 10),
         tp_source |-> "atr_fallback", target |-> 0, sl_dist |-> sl_dist,
         tp_dist |-> sl_dist]

\* the ATR fallback: sl_dist = max_sl, tp_dist = rr_ratio * sl_dist
atr_fallback(entry_price, direction, atr, rr_ratio, max_sl_atr_mult) ==
    LET sl_dist == [num |-> max_sl_atr_mult * atr, den |-> 10]
        tp_num == rr_ratio * max_sl_atr_mult * atr
    IN  [kind |-> "levels",
         sl |-> IF direction = "buy"
                THEN round5(entry_price * 10 - sl_dist.num, 10)
                ELSE round5(entry_price * 10 + sl_dist.num, 10),
         tp |-> IF direction = "buy"
                THEN round5(entry_price * 100 + tp_num, 100)
                ELSE round5(entry_price * 100 - tp_num, 100),
         tp_source |-> "atr_fallback", target |-> 0, sl_dist |-> sl_dist,
         tp_dist |-> [num |-> tp_num, den |-> 100]]

calculate_zone_anchored_risk(entry_price, direction, sr_zones, atr, rr_ratio, triggering_zone, min_sl_atr_mult, max_sl_atr_mult, min_tp_atr_mult) ==
    IF direction \notin {"buy", "sell"}
    THEN NoLevels("raise")
    ELSE LET candidates == SelectSeq(sr_zones, LAMBDA z :
                               triggering_zone = 0 \/ z # triggering_zone)
             valid == valid_zones(candidates, entry_price, direction, atr,
                                  min_tp_atr_mult)
         IN  IF Len(valid) > 0
             THEN zone_path(entry_price, direction, first_sorted(valid, direction),
                            atr, rr_ratio, min_sl_atr_mult, max_sl_atr_mult)
             ELSE atr_fallback(entry_price, direction, atr, rr_ratio, max_sl_atr_mult)

\* the function on its own: called with any list of up to two zones
ZonePrices ==
    {107500, 107600, 108000, 108100, 108200, 108300, 108350, 108500, 109000,
     109100, 110300}
ZoneInputs ==
    [entry_price : {108300}, direction : {"buy", "sell", "hold"},
     sr_zones : UNION {[1..n -> ZonePrices] : n \in 0..2},
     atr : {200}, rr_ratio : {15, 20, 40}, triggering_zone : {0, 108000, 108500}]

InitZones ==
    /\ InitWith(OneStream)
    /\ \E inp \in ZoneInputs :
          calc = [fn |-> "calculate_zone_anchored_risk", pc |-> "called",
                  inp |-> inp, out |-> NoLevels("")]

\* the call runs: it returns RiskLevels or None, or raises ValueError
calculate_zone_anchored_risk_runs ==
    /\ calc.fn = "calculate_zone_anchored_risk"
    /\ calc.pc = "called"
    /\ LET r == calculate_zone_anchored_risk(
                    calc.inp.entry_price, calc.inp.direction, calc.inp.sr_zones,
                    calc.inp.atr, calc.inp.rr_ratio, calc.inp.triggering_zone,
                    MinSlAtrMult, MaxSlAtrMult, MinTpAtrMult)
       IN  calc' = [calc EXCEPT !.pc = IF r.kind = "raise" THEN "raised" ELSE "returned",
                                !.out = r]
    /\ UNCHANGED << http, streams, engines, tasks, mgr, broker, live, resumes, reloads, active >>

NextZones == calculate_zone_anchored_risk_runs

SpecZones == InitZones /\ [][NextZones]_vars

\* a forge.json whose first stream is disabled and has no position limit
InitSettings ==
    /\ InitWith(<< [StreamConfig("s0", "disabled") EXCEPT
                        !.enabled = FALSE, !.max_concurrent_positions = 0],
                   StreamConfig("s1", "active") >>)
    /\ calc = CalcIdle

SpecSettings == InitSettings /\ [][Next]_vars

\* a DrawdownTracker on its own: constructed from any initial equity and
\* threshold, then updated with any sequence of equities
TrackerEquities == {-50, 0, 50, 80, 90, 95, 99, 100, 120}
TrackerThresholds == {50, 100, 200}

InitTracker ==
    /\ streams = OneStream
    /\ \E e0 \in TrackerEquities, dd \in TrackerThresholds :
          engines = [n \in DOMAIN build_engines(OneStream) |->
                        [build_engines(OneStream)[n] EXCEPT
                            !.drawdown = DrawdownTracker_init(e0, dd).tracker]]
    /\ tasks = << >>
    /\ mgr = [pc |-> "idle", idx |-> 0, task_of |-> [n \in {} |-> 0],
              results |-> [n \in {} |-> << >>], fetch_failed |-> {},
              stop_calls |-> 0]
    /\ broker = [positions |-> 0, last_units |-> 0]
    /\ live = [max_drawdown_pct |-> ConfigMaxDrawdownPct,
               max_concurrent_positions |-> OneStream[1].max_concurrent_positions,
               poll_interval_seconds |-> OneStream[1].poll_interval_seconds]
    /\ resumes = 0
    /\ reloads = 0
    /\ active = 0
    /\ http = HttpIdle
    /\ calc = CalcIdle

\* tracker.update(equity) on the tracker of engine n
tracker_update(n, equity) ==
    /\ engines[n].drawdown.present
    /\ engines' = [engines EXCEPT ![n].drawdown = update(@, equity)]
    /\ UNCHANGED << calc, http, streams, tasks, mgr, broker, live, resumes, reloads, active >>

NextTracker == \E n \in Names, e \in TrackerEquities : tracker_update(n, e)

SpecTracker == InitTracker /\ [][NextTracker]_vars

\* calculate_units on its own: called with any combination of negative,
\* zero and positive arguments (risk_pct in hundredths of a percent,
\* pip_value in units of 0.0001)
SizerInputs ==
    [equity : {-100, 0, 1, 100, 500, 1000}, risk_pct : {-100, 0, 50, 100, 200},
     sl_distance_pips : {-5, 0, 20, 30}, pip_value : {-1, 0, 1, 100}]

InitSizer ==
    /\ InitWith(OneStream)
    /\ \E inp \in SizerInputs :
          calc = [fn |-> "calculate_units", pc |-> "called", inp |-> inp,
                  out |-> [ok |-> FALSE, num |-> 0, den |-> 1],
                  direction |-> "none", units |-> 0]

\* the call runs: it returns the quotient or raises ValueError
calculate_units_runs ==
    /\ calc.fn = "calculate_units"
    /\ calc.pc = "called"
    /\ LET u == calculate_units(calc.inp.equity, calc.inp.risk_pct,
                                calc.inp.sl_distance_pips, calc.inp.pip_value)
       IN  calc' = [calc EXCEPT !.pc = IF u.ok THEN "returned" ELSE "raised",
                                !.out = u]
    /\ UNCHANGED << http, streams, engines, tasks, mgr, broker, live, resumes, reloads, active >>

\* run_once step 4 after calculate_units returned, for a signal of the
\* given direction: the units of the OrderRequest handed to place_order
run_once_sizes(direction) ==
    /\ calc.fn = "calculate_units"
    /\ calc.pc = "returned"
    /\ calc' = [calc EXCEPT !.pc = "order", !.direction = direction,
                            !.units = order_units(calc.out, direction)]
    /\ UNCHANGED << http, streams, engines, tasks, mgr, broker, live, resumes, reloads, active >>

NextSizer ==
    \/ calculate_units_runs
    \/ \E direction \in Directions : run_once_sizes(direction)

SpecSizer == InitSizer /\ [][NextSizer]_vars

\* ================================================================ claims
\* a task whose cycle locals are those of a cycle that has begun
Began(t) == tasks[t].c.cfg0.name # ""
\* run_once of that cycle has returned and its result is the last recorded
Over(t) == Began(t) /\ tasks[t].pc \in {"await_refresh", "after_cycle"}
\* the call counters of a cycle in which run_once called nothing
NoCalls(c) ==
    c.n_eval = 0 /\ c.n_rl = 0 /\ c.n_acct = 0 /\ c.n_pos = 0 /\ c.n_order = 0
LastResult(t) == tasks[t].results[Len(tasks[t].results)]
\* between the start of a cycle and the recording of its result
InCycle(t) ==
    tasks[t].pc \in {"run_once", "await_eval", "await_rl", "await_acct",
                     "await_pos", "await_order"}

\* C1: for every engine at most one run loop is executing at any time
\* (so two cycles of one stream never overlap), under any interleaving
\* of run, stop/pause and resume.
C1_CyclesNeverOverlap ==
    \A n \in Names :
        Cardinality({t \in TaskIds : tasks[t].eng = n /\ InCycle(t)}) <= 1

\* C2: every configuration value a cycle uses after its first suspension
\* (risk %, max concurrent positions) is that of the StreamConfig that was
\* current when the cycle began.
C2_CycleUsesItsConfig ==
    \A t \in TaskIds :
        Began(t) =>
            /\ tasks[t].c.risk_used # 0 =>
                    tasks[t].c.risk_used = tasks[t].c.cfg0.risk_per_trade_pct
            /\ tasks[t].c.pos = "ok" =>
                    tasks[t].c.maxpos_used = tasks[t].c.cfg0.max_concurrent_positions

\* C3: when the account-summary fetch of an engine's initialize() fails,
\* initialize() does not raise and the engine holds a tracker seeded with
\* zero equity (and was set running).
C3_InitializeDegrades ==
    \A n \in mgr.fetch_failed :
        /\ ~(mgr.pc = "raised" /\ streams[mgr.idx].name = n)
        /\ engines[n].drawdown.present
        /\ engines[n].drawdown.peak_equity = 0

\* C4: in run_all a failing fetch during one engine's initialize() does
\* not prevent startup: once initialize_all is over, run_all has not
\* raised, every engine has been initialized and has its run loop launched.
C4_FleetStartsDespiteFailure ==
    (mgr.fetch_failed # {} /\ mgr.pc \in {"join", "returned", "raised"}) =>
        /\ mgr.pc # "raised"
        /\ \A n \in Names :
              /\ engines[n].drawdown.present
              /\ \E t \in TaskIds : tasks[t].eng = n

\* C5: a cycle that begins with the tracker's breaker active returns
\* halted/circuit_breaker at once: no strategy evaluation, no broker call,
\* no order.
C5_BreakerAtEntryHalts ==
    \A t \in TaskIds :
        (Began(t) /\ tasks[t].c.dd0.present /\ circuit_breaker_active(tasks[t].c.dd0)) =>
            /\ Over(t)
            /\ LastResult(t) = halted_circuit_breaker
            /\ NoCalls(tasks[t].c)

C5_Witness ==
    \E t \in TaskIds :
        /\ Over(t) /\ tasks[t].c.dd0.present /\ circuit_breaker_active(tasks[t].c.dd0)
        /\ tasks[t].c.hour = 7
        /\ LastResult(t) = halted_circuit_breaker

\* C6: when the equity fetched in step 4 makes the breaker active after the
\* tracker update, the cycle returns halted/circuit_breaker although the
\* entry gate passed, and issues neither the open-positions query nor an
\* order.
C6_BreakerRecheckHalts ==
    \A t \in TaskIds :
        (Began(t) /\ tasks[t].c.acct = "ok" /\ tasks[t].c.dd0.present
           /\ (tasks[t].c.dd1.peak_equity - tasks[t].c.equity) * 1000
                 >= tasks[t].c.dd1.max_drawdown_pct * tasks[t].c.dd1.peak_equity) =>
            /\ Over(t)
            /\ LastResult(t) = halted_circuit_breaker
            /\ ~circuit_breaker_active(tasks[t].c.dd0)
            /\ tasks[t].c.n_pos = 0 /\ tasks[t].c.n_order = 0

C6_Witness ==
    \E t \in TaskIds :
        /\ Over(t) /\ tasks[t].c.acct = "ok" /\ tasks[t].c.eval = "signal"
        /\ tasks[t].c.dd0.present /\ ~circuit_breaker_active(tasks[t].c.dd0)
        /\ tasks[t].c.dd1.peak_equity = 100 /\ tasks[t].c.equity = 90
        /\ LastResult(t) = halted_circuit_breaker

\* the gates of a cycle, from what the cycle recorded: breaker at entry,
\* hour outside the session window, no signal, breaker after the equity
\* refresh, position count at or above the limit
GateBreakerEntry(c) == c.dd0.present /\ circuit_breaker_active(c.dd0)
GateSession(c) ==
    ~(c.cfg0.session_start_utc <= c.hour /\ c.hour < c.cfg0.session_end_utc)
GateNoSignal(c) == c.eval = "none"
GateBreakerRecheck(c) ==
    /\ c.acct = "ok" /\ c.dd1.present
    /\ (c.dd1.peak_equity - c.dd1.current_equity) * 1000
          >= c.dd1.max_drawdown_pct * c.dd1.peak_equity
GatePositions(c) == c.pos = "ok" /\ c.pos_seen >= c.maxpos_used

FirstGate(c) ==
    IF GateBreakerEntry(c) THEN halted_circuit_breaker
    ELSE IF GateSession(c) THEN skipped_outside_session
    ELSE IF GateNoSignal(c) THEN skipped_no_signal
    ELSE IF c.rl = "veto" THEN skipped_rl_veto
    ELSE IF GateBreakerRecheck(c) THEN halted_circuit_breaker
    ELSE IF GatePositions(c) THEN skipped_max_positions
    ELSE order_placed

C8_OutsideSessionSkips ==
    \A t \in TaskIds :
        (Began(t) /\ ~GateBreakerEntry(tasks[t].c)) =>
            IF tasks[t].c.cfg0.session_start_utc <= tasks[t].c.hour
               /\ tasks[t].c.hour < tasks[t].c.cfg0.session_end_utc
            THEN tasks[t].c.n_eval = 1
            ELSE /\ Over(t)
                 /\ LastResult(t) = skipped_outside_session
                 /\ NoCalls(tasks[t].c)

\* the end hour itself is outside
C8_Witness ==
    \E t \in TaskIds :
        /\ Over(t) /\ ~GateBreakerEntry(tasks[t].c)
        /\ tasks[t].c.hour = tasks[t].c.cfg0.session_end_utc
        /\ LastResult(t) = skipped_outside_session

\* something was raised during run_once of the cycle
RaisedIn(c) ==
    c.eval = "raise" \/ c.acct = "raise" \/ c.sizing = "raise" \/ c.order = "raise"

\* C9: when anything is raised during run_once, run() records exactly one
\* error result for that cycle, the exception does not leave run(), the
\* engine's running flag is untouched, and the loop goes on to the
\* max_cycles test and the normal sleep.
C9_ErrorCycleContinues ==
    /\ [](\A t \in TaskIds :
            /\ Len(tasks[t].results) = tasks[t].cycle - (IF InCycle(t) THEN 1 ELSE 0)
            /\ (Began(t) /\ RaisedIn(tasks[t].c)) =>
                  /\ tasks[t].pc = "after_cycle"
                  /\ LastResult(t).action = "error")
    /\ [][\A t \in TaskIds :
            /\ (RaisedIn(tasks'[t].c) /\ ~RaisedIn(tasks[t].c)) =>
                  engines'[tasks[t].eng].running = engines[tasks[t].eng].running
            /\ (RaisedIn(tasks[t].c) /\ tasks'[t] # tasks[t]) =>
                  IF tasks[t].max_cycles > 0 /\ tasks[t].cycle >= tasks[t].max_cycles
                  THEN tasks'[t].pc = "done"
                  ELSE /\ tasks'[t].pc = "sleep_check"
                       /\ tasks'[t].remaining =
                             engines[tasks[t].eng].stream_config.poll_interval_seconds
                       /\ tasks'[t].results = tasks[t].results
         ]_vars

\* a cycle ran after an error cycle of the same loop
C9_Witness ==
    \E t \in TaskIds :
        /\ Len(tasks[t].results) = 2
        /\ tasks[t].results[1].action = "error"
        /\ tasks[t].results[2].action = "order_placed"

\* C10: once running is false (stop() called, no resume since) the run
\* loop starts no further cycle; stop() itself leaves every task where it
\* is, so a cycle in progress completes and is recorded; at the next
\* while test run() returns, with one result per cycle it started (none
\* when stop() came before the first test).
C10_StopEndsLoop ==
    /\ [](\A t \in TaskIds :
            tasks[t].pc = "done" => Len(tasks[t].results) = tasks[t].cycle)
    /\ [][\A t \in TaskIds :
            /\ tasks'[t].cycle > tasks[t].cycle => engines[tasks[t].eng].running
            /\ (engines[tasks[t].eng].running /\ ~engines'[tasks[t].eng].running) =>
                  tasks' = tasks
            /\ (tasks[t].pc = "loop_head" /\ ~engines[tasks[t].eng].running
                   /\ tasks'[t] # tasks[t]) =>
                  /\ tasks'[t].pc = "done"
                  /\ tasks'[t].results = tasks[t].results
         ]_vars

\* stopped in the middle of its first cycle, the loop has returned with
\* that cycle's result
C10_Witness ==
    \E t \in TaskIds :
        /\ tasks[t].pc = "done" /\ tasks[t].cycle = 1
        /\ tasks[t].results = << order_placed >>
        /\ ~engines[tasks[t].eng].running
        /\ resumes = 0

\* C11: the inter-cycle sleep is a sequence of one-second waits with the
\* running flag rechecked before each: a wait is begun only while running
\* is true, each wait consumes one second of the interval, and a check
\* that finds running false leaves the sleep for the while test, which
\* ends the loop, whatever is left of the interval.
C11_StopInterruptsSleep ==
    [][\A t \in TaskIds :
        LET e == engines[tasks[t].eng] IN
        /\ (tasks[t].pc # "sleeping" /\ tasks'[t].pc = "sleeping") => e.running
        /\ (tasks[t].pc = "sleeping" /\ tasks'[t] # tasks[t]) =>
              /\ tasks'[t].pc = "sleep_check"
              /\ tasks'[t].remaining = tasks[t].remaining - 1
        /\ (tasks[t].pc = "sleep_check" /\ ~e.running /\ tasks'[t] # tasks[t]) =>
              /\ tasks'[t].pc = "loop_head"
              /\ engines' = engines
        /\ (tasks[t].pc = "loop_head" /\ ~e.running /\ tasks'[t] # tasks[t]) =>
              tasks'[t].pc = "done"
     ]_vars

\* a loop stopped during a wait has returned with part of its interval
\* unspent
C11_Witness ==
    \E t \in TaskIds :
        /\ tasks[t].pc = "done" /\ tasks[t].cycle >= 1
        /\ tasks[t].remaining >= 1
        /\ tasks[t].remaining < engines[tasks[t].eng].stream_config.poll_interval_seconds

\* C12: once stop_all() has been called after run_all() began, every
\* engine's run loop exits and run_all() returns.  A run loop leaves only
\* at a while test that finds running false, so from the moment the loops
\* are launched no engine may be left with running true.
C12_StopAllEndsFleet ==
    (mgr.stop_calls > 0 /\ mgr.pc \in {"join", "returned"}) =>
        \A n \in Names : ~engines[n].running

\* C13: stopped is terminal.  initialize() gives an engine its tracker
\* and sets running in one step, so an engine that has a tracker and is
\* not running has gone from running to stopped: the only step that may
\* set running is the one on an engine not yet initialized.
C13_StoppedIsTerminal ==
    [][\A n \in Names :
        (~engines[n].running /\ engines'[n].running) => ~engines[n].drawdown.present
     ]_vars

\* C14: run_all launches one run loop per engine as concurrent tasks and
\* returns only after all of them have ended; a loop that raises leaves
\* the other loops and every engine as they are, the join ends only by
\* run_all returning, and the returned map has an entry for every engine:
\* the list its run() returned, or a single error result for a loop that
\* raised.
C14_RunAllJoinsEveryLoop ==
    /\ [](mgr.pc \in {"join", "returned"} =>
            \A n \in Names :
                Cardinality({t \in TaskIds : tasks[t].eng = n}) = 1)
    /\ [](mgr.pc = "returned" =>
            /\ DOMAIN mgr.results = Names
            /\ \A t \in TaskIds :
                  /\ tasks[t].pc \in {"done", "crashed"}
                  /\ tasks[t].pc = "done" =>
                        mgr.results[tasks[t].eng] = tasks[t].results
                  /\ tasks[t].pc = "crashed" =>
                        /\ Len(mgr.results[tasks[t].eng]) = 1
                        /\ mgr.results[tasks[t].eng][1].action = "error")
    /\ [][\A t \in TaskIds :
            (tasks[t].pc # "crashed" /\ tasks'[t].pc = "crashed") =>
                /\ \A u \in TaskIds \ {t} : tasks'[u] = tasks[u]
                /\ engines' = engines
                /\ mgr' = mgr
         ]_vars
    /\ [][(mgr.pc = "join" /\ mgr'.pc # "join") => mgr'.pc = "returned"]_vars

\* run_all has returned although the first loop raised; the second
\* engine's loop went on to complete a cycle afterwards
C14_Witness ==
    /\ mgr.pc = "returned"
    /\ \E t, u \in TaskIds :
          /\ tasks[t].pc = "crashed" /\ tasks[u].pc = "done"
          /\ tasks[u].cycle > tasks[t].cycle
          /\ mgr.results[tasks[t].eng] = << error_result("crash") >>
          /\ mgr.results[tasks[u].eng] = tasks[u].results

\* C15: stop_stream(name) sets running to false on the named engine and
\* changes nothing else: every other engine keeps its running flag, cycle
\* count, config and tracker, the named engine keeps everything but the
\* flag, and an unknown name changes no engine.
C15_StopStreamOnlyNamed ==
    [][\A name \in Names \cup {UnknownStream} :
        stop_stream(name) =>
            /\ \A n \in Names \ {name} : engines'[n] = engines[n]
            /\ name \in Names =>
                  engines'[name] = [engines[name] EXCEPT !.running = FALSE]
            /\ name \notin Names => engines' = engines
            /\ tasks' = tasks
     ]_vars

\* both engines initialized, one stopped and the other still running:
\* among the stop requests only stop_stream leaves the fleet like this
C15_Witness ==
    \E n, m \in Names :
        /\ engines[n].drawdown.present /\ engines[m].drawdown.present
        /\ mgr.pc = "join" /\ mgr.stop_calls = 0
        /\ ~engines[n].running /\ engines[m].running

\* C16: stop() is idempotent and total: in every engine state, before
\* initialize included, a second stop() leaves the engine as the first
\* did, which is not running and otherwise unchanged; a stop_all that
\* finds every engine already stopped changes no engine.
C16_StopIdempotent ==
    /\ [](\A n \in Names :
            /\ stop(stop(engines[n])) = stop(engines[n])
            /\ stop(engines[n]) = [engines[n] EXCEPT !.running = FALSE])
    /\ [][(stop_all_recorded /\ \A n \in Names : ~engines[n].running) =>
            engines' = engines]_vars

\* stop_all called twice while the second engine's initialize() is
\* awaited: a stopped engine and one not yet initialized, both stopped
\* twice
C16_Witness ==
    /\ mgr.stop_calls = 2
    /\ mgr.pc = "await_init"
    /\ \E n, m \in Names :
          /\ engines[n].drawdown.present /\ ~engines[n].running
          /\ ~engines[m].drawdown.present /\ ~engines[m].running

\* an attempt outcome after which the retry policy allows another attempt
RetryableOutcome(r) ==
    r.kind = "transport" \/ (r.kind = "status" /\ r.code \in {429, 502, 503, 504})
\* a successful response
SuccessOutcome(r) == r.kind = "status" /\ r.code < 400
LastOutcome == http.log[Len(http.log)]

\* C17: a broker call makes at most 3 HTTP attempts; every attempt but
\* the first follows a response with status 429, 502, 503 or 504 or a
\* transport failure; the first successful response ends the call; when
\* all 3 attempts failed in a retryable way the error of the last attempt
\* is what the caller gets.
C17_AtMostThreeAttempts ==
    /\ Len(http.log) <= 3
    /\ Len(http.requests) = Len(http.log)
    /\ \A k \in 1..Len(http.log) :
          /\ k < Len(http.log) => RetryableOutcome(http.log[k])
          /\ SuccessOutcome(http.log[k]) => k = Len(http.log) /\ http.pc = "returned"
    /\ http.pc = "attempt" =>
          /\ Len(http.log) < 3
          /\ \A k \in 1..Len(http.log) : RetryableOutcome(http.log[k])
    /\ http.pc = "backoff" => RetryableOutcome(LastOutcome)
    /\ http.pc = "returned" => SuccessOutcome(LastOutcome)
    /\ http.pc = "raised" =>
          /\ http.raised = LastOutcome
          /\ RetryableOutcome(LastOutcome) => Len(http.log) = 3

\* three attempts, a timeout then 503 twice, and the last 503 raised
C17_Witness ==
    /\ http.pc = "raised" /\ Len(http.log) = 3
    /\ http.log[1].kind = "transport"
    /\ http.log[2].code = 503 /\ http.log[3].code = 503
    /\ http.raised = http.log[3]

\* C18: an HTTP error status outside {429, 502, 503, 504} is raised to
\* the caller by the step that receives it, on whichever attempt: no
\* backoff delay is begun for it and no attempt follows it.
C18_NonRetryableRaisedAtOnce ==
    /\ [][(http.pc = "attempt" /\ http' # http
             /\ ~RetryableOutcome(http'.log[Len(http'.log)])
             /\ ~SuccessOutcome(http'.log[Len(http'.log)])) =>
            /\ http'.pc = "raised"
            /\ http'.raised = http'.log[Len(http'.log)]
            /\ http'.delays = http.delays
            /\ Len(http'.log) = Len(http.log) + 1
         ]_vars
    /\ []((http.pc = "raised" /\ ~RetryableOutcome(LastOutcome)) =>
            /\ Len(http.delays) = Len(http.log) - 1
            /\ http.raised = LastOutcome)

\* a 404 on the third attempt, raised after the two delays of the earlier
\* attempts only
C18_Witness ==
    /\ http.pc = "raised" /\ Len(http.log) = 3
    /\ http.raised.code = 404
    /\ http.delays = << 2, 4 >>

\* C19: the backoff delay after the k-th failed attempt (k from 0) is
\* base x 2^k, and every delay is followed by another attempt: a call
\* that has ended has slept one delay fewer than it made attempts.
C19_BackoffOnlyBetweenAttempts ==
    /\ \A k \in 1..Len(http.delays) : http.delays[k] = 2 * 2 ^ (k - 1)
    /\ http.pc \in {"returned", "raised"} =>
          Len(http.delays) = Len(http.log) - 1

\* C20: mutating calls (place_order, close_position, modify_trade_sl) are
\* retried like reads: a retryable failure with attempts left is always
\* followed by another send, up to 3 sends for one call; every send of a
\* call is the identical request, which carries no idempotency token.
C20_MutatingCallsRetriedAlike ==
    http.call.method \in {"post", "put"} =>
        /\ Len(http.requests) <= 3
        /\ http.executed <= Len(http.requests)
        /\ \A k \in 1..Len(http.requests) :
              /\ http.requests[k] = [method |-> http.call.method, path |-> http.call.path,
                                      headers |-> http.call.headers, body |-> http.call.body]
              /\ http.requests[k].headers = {"Authorization", "Content-Type"}
              /\ \A f \in http.requests[k].body :
                    f[1] \notin {"clientExtensions", "clientRequestID", "id"}
        /\ \A k \in 1..Len(http.log) :
              k < Len(http.log) => RetryableOutcome(http.log[k])
        /\ (http.pc \in {"returned", "raised"} /\ Len(http.log) < 3) =>
              ~RetryableOutcome(LastOutcome)

\* one place_order call whose three sends all timed out after the server
\* had carried the order out
C20_Witness ==
    /\ http.call.name = "place_order"
    /\ http.pc = "raised"
    /\ Len(http.requests) = 3 /\ http.executed = 3
    /\ \A k \in 1..3 : http.log[k].kind = "transport"

\* C21: a settings reload writes to an engine only by replacing its
\* StreamConfig reference: the step that handles a settings request
\* leaves every field of every engine's DrawdownTracker as it was.
C21_ReloadReplacesOnly ==
    [][reloads' # reloads =>
        \A n \in Names : engines'[n].drawdown = engines[n].drawdown
     ]_vars


\* C22: the wait after a cycle lasts poll_interval_seconds of the stream
\* config the engine holds when that cycle ends, also when a reload has
\* replaced the config since run() started; a reload during a wait leaves
\* the wait's remaining seconds alone.
C22_WaitUsesCurrentInterval ==
    /\ [][\A t \in TaskIds :
            (tasks[t].pc = "after_cycle" /\ tasks'[t].pc = "sleep_check")
                => tasks'[t].remaining =
                       engines[tasks[t].eng].stream_config.poll_interval_seconds
       ]_vars
    /\ [][\A t \in TaskIds :
            tasks'[t].remaining # tasks[t].remaining
                => \/ tasks[t].pc = "after_cycle"
                   \/ /\ tasks[t].pc = "sleeping"
                      /\ tasks'[t].remaining = tasks[t].remaining - 1
       ]_vars

\* a wait of the reloaded interval in a run() that started under another one
C22_Witness ==
    \E t \in TaskIds :
        /\ tasks[t].pc = "sleeping"
        /\ tasks[t].poll_interval = 2
        /\ tasks[t].remaining = 10
        /\ engines[tasks[t].eng].stream_config.poll_interval_seconds = 10


\* C23: on a DrawdownTracker every update(e) leaves the peak no lower than
\* it was and no lower than e, and leaves current_equity equal to e; in
\* every state the peak is at least the current equity and drawdown_pct is
\* not negative.
C23_PeakBoundsEquity ==
    /\ [][\A n \in Names, e \in TrackerEquities :
            tracker_update(n, e) =>
                /\ engines'[n].drawdown.peak_equity >= engines[n].drawdown.peak_equity
                /\ engines'[n].drawdown.peak_equity >= e
                /\ engines'[n].drawdown.current_equity = e
       ]_vars
    /\ [](\A n \in Names :
            engines[n].drawdown.present =>
                /\ engines[n].drawdown.peak_equity >= engines[n].drawdown.current_equity
                /\ drawdown_pct(engines[n].drawdown).num >= 0
                /\ drawdown_pct(engines[n].drawdown).den > 0)

\* a tracker whose peak was raised by an update and whose current equity
\* has since fallen below it
C23_Witness ==
    \E n \in Names :
        /\ engines[n].drawdown.present
        /\ engines[n].drawdown.peak_equity = 120
        /\ engines[n].drawdown.current_equity = -50

\* C24: in every tracker state circuit_breaker_active is true exactly when
\* (peak - current) / peak x 100 >= max_drawdown_pct: a drawdown equal to
\* the threshold trips the breaker, a drawdown below it does not.
C24_BreakerAtThreshold ==
    \A n \in Names :
        LET d == engines[n].drawdown
        IN  d.present =>
                (circuit_breaker_active(d) <=>
                     drawdown_pct(d).num * 10 >= d.max_drawdown_pct * drawdown_pct(d).den)

\* a drawdown of exactly the threshold (100 -> 90 at 10 %) with the breaker
\* tripped
C24_Witness ==
    \E n \in Names :
        LET d == engines[n].drawdown
        IN  /\ d.present
            /\ d.peak_equity = 100 /\ d.current_equity = 90
            /\ d.max_drawdown_pct = 100
            /\ circuit_breaker_active(d)


\* the tracker's current equity is at or below peak x (1 - threshold/100)
AtOrBelowLine(d) ==
    d.current_equity * 1000 <= d.peak_equity * (1000 - d.max_drawdown_pct)

\* C25: the breaker is no latch.  A cycle is halted at entry exactly when
\* the tracker it starts with holds an equity at or below
\* peak x (1 - threshold/100); a halted cycle goes on to the run loop's
\* refresh, and an equity the refresh reports is written to the tracker, so
\* a reported equity above the line lets the next cycle pass the breaker.
C25_BreakerFollowsEquity ==
    /\ [](\A t \in TaskIds :
            (Began(t) /\ tasks[t].c.dd0.present) =>
                (AtOrBelowLine(tasks[t].c.dd0) <=>
                    /\ Over(t)
                    /\ LastResult(t) = halted_circuit_breaker
                    /\ NoCalls(tasks[t].c)))
    /\ [][\A t \in TaskIds :
            /\ (Len(tasks'[t].results) > Len(tasks[t].results)
                  /\ tasks'[t].results[Len(tasks'[t].results)] = halted_circuit_breaker)
                  => tasks'[t].pc = "await_refresh"
            /\ \A out \in AccountOutcomes :
                  (refresh_returns(t, out) /\ out.ok
                     /\ engines[tasks[t].eng].drawdown.present)
                  => /\ engines'[tasks[t].eng].drawdown.current_equity = out.equity
                     /\ circuit_breaker_active(engines'[tasks[t].eng].drawdown)
                           <=> AtOrBelowLine(engines'[tasks[t].eng].drawdown)
       ]_vars

\* a cycle halted at entry by the tripped breaker, after which the refresh
\* reported the equity back at the peak: the breaker is no longer active
C25_Witness ==
    \E t \in TaskIds :
        /\ tasks[t].pc = "after_cycle"
        /\ GateBreakerEntry(tasks[t].c)
        /\ LastResult(t) = halted_circuit_breaker
        /\ engines[tasks[t].eng].drawdown.current_equity = 100
        /\ engines[tasks[t].eng].drawdown.peak_equity = 100
        /\ ~circuit_breaker_active(engines[tasks[t].eng].drawdown)


\* C26: calculate_units called with positive equity, risk percentage, stop
\* distance and pip value returns (equity x riskPct / 100) / (stopPips x
\* pipValue), a value above 0; called with any argument at or below 0 it
\* raises and returns nothing.
C26_UnitsFormula ==
    (calc.fn = "calculate_units" /\ calc.pc # "called") =>
        LET i == calc.inp
        IN  IF i.equity > 0 /\ i.risk_pct > 0 /\ i.sl_distance_pips > 0 /\ i.pip_value > 0
            THEN /\ calc.pc \in {"returned", "order"}
                 /\ calc.out.den > 0
                 /\ calc.out.num > 0
                 /\ calc.out.num * (i.sl_distance_pips * i.pip_value)
                       = (i.equity * i.risk_pct) * calc.out.den
            ELSE calc.pc = "raised"

\* 1 000 of equity at 1 % with a stop of 30 pips: 3 333.33 units
C26_Witness ==
    /\ calc.fn = "calculate_units"
    /\ calc.pc = "returned"
    /\ calc.inp = [equity |-> 1000, risk_pct |-> 100, sl_distance_pips |-> 30,
                   pip_value |-> 1]
    /\ calc.out.num * 3 = 10000 * calc.out.den


\* C27: the units of every order handed to place_order are the computed
\* size truncated to an integer, 1 when that is 0, positive for a buy and
\* negative for a sell: never 0.
C27_OrderUnits ==
    (calc.fn = "calculate_units" /\ calc.pc = "order") =>
        LET a == IF calc.units < 0 THEN 0 - calc.units ELSE calc.units
            num == calc.inp.equity * calc.inp.risk_pct
            den == calc.inp.sl_distance_pips * calc.inp.pip_value
        IN  /\ calc.units \in Int
            /\ a >= 1
            /\ IF num < den THEN a = 1
               ELSE a * den <= num /\ num < (a + 1) * den
            /\ calc.direction = "buy" => calc.units > 0
            /\ calc.direction = "sell" => calc.units < 0

\* a sell whose computed size 50 / 3000 truncates to 0: the order is for
\* -1 unit
C27_Witness ==
    /\ calc.fn = "calculate_units"
    /\ calc.pc = "order"
    /\ calc.inp.equity * calc.inp.risk_pct
          < calc.inp.sl_distance_pips * calc.inp.pip_value
    /\ calc.direction = "sell"
    /\ calc.units = -1


\* C28: a cycle whose open-positions query has answered ends in
\* skipped/max_concurrent_positions, with no order submitted, exactly when
\* the query succeeded and counted at least as many positions on the
\* instrument as the limit the guard compares with; when the query raised,
\* the order is submitted whatever the count.
C28_GuardFailsOpen ==
    \A t \in TaskIds :
        (Began(t) /\ tasks[t].c.pos # "") =>
            /\ tasks[t].c.n_pos = 1
            /\ tasks[t].c.cfg0.max_concurrent_positions > 0
            /\ IF tasks[t].c.pos = "ok" /\ tasks[t].c.pos_seen >= tasks[t].c.maxpos_used
               THEN /\ Over(t)
                    /\ LastResult(t) = skipped_max_positions
                    /\ tasks[t].c.n_order = 0
               ELSE /\ tasks[t].c.n_order = 1
                    /\ Over(t) => LastResult(t) # skipped_max_positions

\* the query raised while the account held as many positions as the limit:
\* the order was placed all the same
C28_Witness ==
    \E t \in TaskIds :
        /\ Over(t)
        /\ tasks[t].c.pos = "raise"
        /\ tasks[t].c.order = "ok"
        /\ LastResult(t) = order_placed
        /\ tasks[t].c.cfg0.max_concurrent_positions = 1
        /\ engines[tasks[t].eng].stream_config.max_concurrent_positions = 1
        /\ broker.positions = 2


\* the zones a call may take as its target: price other than the
\* triggering zone's, beyond entry in the profit direction, at least
\* MinTpAtrMult x ATR away
ZoneCandidates(i) ==
    {z \in {i.sr_zones[k] : k \in 1..Len(i.sr_zones)} :
        /\ i.triggering_zone = 0 \/ z # i.triggering_zone
        /\ IF i.direction = "buy" THEN z > i.entry_price ELSE z < i.entry_price
        /\ (IF z > i.entry_price THEN z - i.entry_price ELSE i.entry_price - z) * 10
              >= MinTpAtrMult * i.atr}

\* the candidate nearest to entry
NearestCandidate(i) ==
    CHOOSE z \in ZoneCandidates(i) :
        \A y \in ZoneCandidates(i) :
            IF i.direction = "buy" THEN z <= y ELSE z >= y

\* C29: the zone-anchored calculation takes the zone path exactly when some
\* zone has a price other than the triggering zone's, lies strictly beyond
\* entry in the profit direction and is at least minTpAtrMult x ATR away (a
\* zone at exactly that distance counts); the target is then the nearest
\* such zone and a result that is not rejected is tagged zone.
C29_TargetIsNearestZone ==
    (calc.fn = "calculate_zone_anchored_risk" /\ calc.pc = "returned") =>
        IF ZoneCandidates(calc.inp) # {}
        THEN /\ calc.out.target = NearestCandidate(calc.inp)
             /\ calc.out.kind = "levels" =>
                    /\ calc.out.tp_source = "zone"
                    /\ calc.out.tp = NearestCandidate(calc.inp)
        ELSE calc.out.tp_source # "zone" /\ calc.out.target = 0

\* entry 1.0830, buy, ATR 0.0020, rr 2.0, trigger 1.0800, zone 1.0900:
\* target 1.0900, stop 1.0795, tagged zone
C29_Witness ==
    /\ calc.fn = "calculate_zone_anchored_risk"
    /\ calc.pc = "returned"
    /\ calc.inp = [entry_price |-> 108300, direction |-> "buy",
                   sr_zones |-> << 108000, 109000 >>, atr |-> 200,
                   rr_ratio |-> 20, triggering_zone |-> 108000]
    /\ calc.out.kind = "levels"
    /\ calc.out.tp = 109000
    /\ calc.out.sl = 107950
    /\ calc.out.tp_source = "zone"


\* C30: on the zone path, with d the distance from entry to the target:
\* when d / rrRatio is below minSlAtrMult x ATR the call returns no setup
\* (no ATR fallback, no farther zone); otherwise it returns the target with
\* a stop distance of d / rrRatio, replaced by maxSlAtrMult x ATR when
\* larger; a derived distance equal to either bound is kept as it is; the
\* stop is entry minus (buy) or plus (sell) that distance, rounded.
C30_StopFromTarget ==
    (calc.fn = "calculate_zone_anchored_risk" /\ calc.pc = "returned"
       /\ ZoneCandidates(calc.inp) # {}) =>
        LET i == calc.inp
            tp == NearestCandidate(i)
            d == IF tp > i.entry_price THEN tp - i.entry_price ELSE i.entry_price - tp
            s == calc.out.sl_dist
        IN  IF d * 100 < MinSlAtrMult * i.atr * i.rr_ratio
            THEN calc.out.kind = "none"
            ELSE /\ calc.out.kind = "levels"
                 /\ calc.out.tp = tp
                 /\ calc.out.tp_source = "zone"
                 /\ s.den > 0
                 /\ IF d * 100 > MaxSlAtrMult * i.atr * i.rr_ratio
                    THEN s.num * 10 = MaxSlAtrMult * i.atr * s.den
                    ELSE s.num * i.rr_ratio = d * 10 * s.den
                 /\ calc.out.sl =
                        IF i.direction = "buy"
                        THEN round5(i.entry_price * s.den - s.num, s.den)
                        ELSE round5(i.entry_price * s.den + s.num, s.den)

\* rr 4.0 with the nearest zone 1.0 x ATR away: the derived stop of
\* 0.25 x ATR is below the floor and the call returns no setup although a
\* farther zone is on the list
C30_Witness ==
    /\ calc.fn = "calculate_zone_anchored_risk"
    /\ calc.pc = "returned"
    /\ calc.inp.direction = "buy"
    /\ calc.inp.sr_zones = << 108500, 109100 >>
    /\ calc.inp.rr_ratio = 40
    /\ calc.inp.triggering_zone = 0
    /\ calc.out.kind = "none"


C39_LevelsWithinBounds ==
    (calc.fn = "calculate_zone_anchored_risk" /\ calc.pc = "returned"
       /\ calc.out.kind = "levels") =>
        LET i == calc.inp
            s == calc.out.sl_dist
            t == calc.out.tp_dist
        IN  /\ s.den > 0 /\ t.den > 0
            /\ s.num > 0 /\ t.num > 0
            /\ IF i.direction = "buy"
               THEN /\ calc.out.sl = round5(i.entry_price * s.den - s.num, s.den)
                    /\ calc.out.tp = round5(i.entry_price * t.den + t.num, t.den)
               ELSE /\ calc.out.sl = round5(i.entry_price * s.den + s.num, s.den)
                    /\ calc.out.tp = round5(i.entry_price * t.den - t.num, t.den)
            /\ s.num * 10 >= MinSlAtrMult * i.atr * s.den
            /\ s.num * 10 <= MaxSlAtrMult * i.atr * s.den
            /\ t.num * s.den * 10 >= i.rr_ratio * s.num * t.den

\* a target 10 x ATR away at rr 2.0: the stop is capped at 2.0 x ATR and the
\* target is 5 times as far as the stop
C39_Witness ==
    /\ calc.fn = "calculate_zone_anchored_risk"
    /\ calc.pc = "returned"
    /\ calc.inp.direction = "buy"
    /\ calc.inp.sr_zones = << 110300 >>
    /\ calc.inp.rr_ratio = 20
    /\ calc.out.kind = "levels"
    /\ calc.out.tp = 110300
    /\ calc.out.sl = 107900
    /\ calc.out.tp_dist.num * calc.out.sl_dist.den
          = 5 * calc.out.sl_dist.num * calc.out.tp_dist.den


\* C35: a POST /settings request that is rejected because some field is
\* out of range leaves the live settings and every engine (StreamConfig
\* and tracker threshold) exactly as they were, the in-range fields of the
\* same request included.
C35_RejectedSettingsChangeNothing ==
    [][\A body \in SettingsBodies :
          (post_settings(body) /\ settings_errors(body)) =>
              /\ live' = live
              /\ engines' = engines
      ]_vars

\* C36: an accepted POST /settings request changes, in every engine's
\* StreamConfig, only the fields the body names: poll interval and max
\* concurrent positions stay when not named, and risk %, rr ratio, session
\* hours and rl_filter always stay.
C36_SettingsChangeNamedFieldsOnly ==
    [][\A body \in SettingsBodies :
          (post_settings(body) /\ ~settings_errors(body)) =>
              \A n \in Names :
                  LET old == engines[n].stream_config
                      new == engines'[n].stream_config
                  IN  /\ ~Has(body, "poll_interval_seconds") =>
                            new.poll_interval_seconds = old.poll_interval_seconds
                      /\ ~Has(body, "max_concurrent_positions") =>
                            new.max_concurrent_positions = old.max_concurrent_positions
                      /\ new.name = old.name
                      /\ new.instrument = old.instrument
                      /\ new.strategy = old.strategy
                      /\ new.enabled = old.enabled
                      /\ new.risk_per_trade_pct = old.risk_per_trade_pct
                      /\ new.rr_ratio = old.rr_ratio
                      /\ new.session_start_utc = old.session_start_utc
                      /\ new.session_end_utc = old.session_end_utc
                      /\ new.rl_filter = old.rl_filter
      ]_vars


\* C32: every engine's StreamConfig starts with 0 <= session_start < 24,
\* 1 <= session_end <= 24 and max_concurrent_positions >= 1, and keeps
\* them through every settings and stream-settings request.
C32_ConfigRangesKept ==
    \A n \in Names :
        LET sc == engines[n].stream_config
        IN  /\ 0 <= sc.session_start_utc /\ sc.session_start_utc < 24
            /\ 1 <= sc.session_end_utc /\ sc.session_end_utc <= 24
            /\ sc.max_concurrent_positions >= 1


\* C33: run(max_cycles = n) on an initialized engine.  With n > 0 the
\* loop never starts more than n cycles; it returns while the engine is
\* still running (stop() was never called) only after exactly n cycles,
\* so with n = 0 it returns only once running is false; the step after
\* the n-th cycle returns without entering the sleep; and whenever the
\* loop is between cycles or has returned, the result list holds one
\* entry per cycle started, error results included.
C33_MaxCyclesBoundsRun ==
    [][\A t \in DOMAIN tasks :
        LET tk == tasks'[t]
            n == tk.max_cycles
        IN  /\ n > 0 => tk.cycle <= n
            /\ (tk.pc = "done" /\ engines'[tk.eng].running) => (n > 0 /\ tk.cycle = n)
            /\ (tasks[t].pc = "after_cycle" /\ tk # tasks[t] /\ n > 0 /\ tasks[t].cycle >= n) =>
                  tk.pc = "done"
            /\ (tk.pc \in {"sleep_check", "sleeping"}) => ~(n > 0 /\ tk.cycle >= n)
            /\ (tk.pc \in {"after_cycle", "sleep_check", "sleeping", "loop_head", "done"}) =>
                  Len(tk.results) = tk.cycle
            /\ Len(tk.results) <= tk.cycle]_vars

\* run(max_cycles = 2) has returned after two cycles on an engine that
\* was never stopped; the first cycle raised and its error is in the list
C33_Witness ==
    \E t \in TaskIds :
        /\ tasks[t].pc = "done"
        /\ tasks[t].max_cycles = 2
        /\ tasks[t].cycle = 2
        /\ engines[tasks[t].eng].running
        /\ Len(tasks[t].results) = 2
        /\ tasks[t].results[1].action = "error"
        /\ tasks[t].results[2].action # "error"


\* C34: when build_engines returns, the manager holds exactly one engine
\* for each enabled stream it was constructed with, stored under that
\* stream's name and carrying that stream's config, and no engine for a
\* disabled stream; every engine refers to the one broker object of the
\* manager, and each has a strategy object of the class registered under
\* its stream's strategy key that no other engine has.  build_engines
\* leaves with an error only when an enabled stream names an unregistered
\* strategy.
C34_OneEnginePerEnabledStream ==
    LET inp == IF calc.fn = "build_engines" THEN calc.inp ELSE << >>
        on == {i \in 1..Len(inp) : inp[i].enabled}
    IN  /\ (calc.fn = "build_engines" /\ calc.pc = "returned") =>
              /\ DOMAIN engines = {inp[i].name : i \in on}
              /\ Cardinality(DOMAIN engines) = Cardinality(on)
              /\ \A i \in on : engines[inp[i].name].stream_config = inp[i]
              /\ \A i \in 1..Len(inp) : ~inp[i].enabled => inp[i].name \notin DOMAIN engines
              /\ \A n \in DOMAIN engines :
                    /\ engines[n].broker = SharedBroker
                    /\ engines[n].strategy.ok
                    /\ engines[n].strategy.cls = engines[n].stream_config.strategy
                    /\ \A m \in DOMAIN engines :
                          /\ engines[m].broker = engines[n].broker
                          /\ m # n => engines[m].strategy # engines[n].strategy
        /\ (calc.fn = "build_engines" /\ calc.pc = "raised") =>
              \E i \in on : inp[i].strategy \notin STRATEGY_REGISTRY

\* build_engines returned for a manager given three streams: two enabled
\* ones with the same strategy key and a disabled one with an
\* unregistered key; two engines exist
C34_Witness ==
    /\ calc.fn = "build_engines"
    /\ calc.pc = "returned"
    /\ Len(calc.inp) = 3
    /\ Cardinality(DOMAIN engines) = 2
    /\ \E i \in 1..3 : ~calc.inp[i].enabled /\ calc.inp[i].strategy = "nope"
    /\ \A n \in DOMAIN engines : engines[n].strategy.cls = "trend_scalp"


\* C37: every stream of the instrument has the position-count guard on
\* (max_concurrent_positions > 0) and every open-positions query answers:
\* the account never holds more open positions on the instrument than any
\* stream's max_concurrent_positions allows, whatever the interleaving of
\* the streams' cycles.
C37_PositionsWithinLimit ==
    ((\A n \in DOMAIN engines : engines[n].stream_config.max_concurrent_positions > 0)
     /\ (\A t \in TaskIds : tasks[t].c.pos # "raise")) =>
        \A n \in DOMAIN engines :
            broker.positions <= engines[n].stream_config.max_concurrent_positions


\* C38: a cycle whose step-4 account fetch reported an equity of zero or
\* below places no order.  If the engine has a tracker the cycle has
\* ended halted/circuit_breaker; if it has none, calculate_units has
\* raised and the cycle has ended with an error.  In both cases neither
\* the open-positions query nor place_order was issued.
C38_NoOrderWithoutEquity ==
    \A t \in TaskIds :
        (Began(t) /\ tasks[t].c.acct = "ok" /\ tasks[t].c.equity <= 0) =>
            /\ tasks[t].c.n_pos = 0 /\ tasks[t].c.n_order = 0
            /\ tasks[t].c.order = ""
            /\ Over(t)
            /\ IF tasks[t].c.dd1.present
               THEN LastResult(t) = halted_circuit_breaker
               ELSE /\ tasks[t].c.sizing = "raise"
                    /\ LastResult(t) = error_result("calculate_units")

\* a cycle of an engine without a tracker that fetched an equity of zero:
\* sizing raised and the cycle ended with an error, no order placed
C38_Witness ==
    \E t \in TaskIds :
        /\ Over(t) /\ tasks[t].c.acct = "ok" /\ tasks[t].c.equity = 0
        /\ tasks[t].c.eval = "signal"
        /\ ~tasks[t].c.dd1.present
        /\ tasks[t].c.sizing = "raise"
        /\ tasks[t].c.n_order = 0
        /\ LastResult(t).action = "error"

====
